---------------------------- MODULE Spec2Model ----------------------------
(***************************************************************************)
(* A byte-level model of the D-Bus message codec of                        *)
(* src/src/libsystemd-bus/bus-message.c.                                   *)
(*                                                                         *)
(* Memory is modelled as it is laid out on a little-endian host: a region  *)
(* is a sequence of bytes (0..255) together with the address of its first  *)
(* byte, a pointer is an address, and NULL is the address 0.  A string is  *)
(* the sequence of its character codes without the terminating NUL.  A     *)
(* fixed-size value (uint32_t, uint64_t, ...) is passed to and returned    *)
(* from the codec as its memory image, the sequence of its bytes in host   *)
(* order, because TLC's integers are 32 bits wide.                         *)
(*                                                                         *)
(* Every handler of the codec is an operator from the message (a record    *)
(* holding the fields of struct sd_bus_message) and the call's arguments   *)
(* to the message after the call, the return code and the out-values.  An  *)
(* action applies one handler to the message the caller holds.             *)
(***************************************************************************)
EXTENDS Integers, Sequences, FiniteSets, TLC

VARIABLES
    m,      \* the message the caller holds (m.id = 0: no message, a NULL pointer)
    last    \* the last call: its name, its return code, whether it aborted
            \* and whether it changed the message held

vars == <<m, last>>

(***************************************************************************)
(* Bounds of the model                                                     *)
(***************************************************************************)
\* the largest body (bytes) to which Spec adds a further top-level value
MaxBody == 0
\* the largest array (bytes) to which Spec adds a further element
MaxArray == 1
\* the largest number of message objects created one from the other
MaxMsgs == 2
\* how many containers beyond BUS_CONTAINER_DEPTH SpecDepth lets the writer try
MaxOver == 1
\* the largest body (bytes) to which SpecArray adds an array or an element
MaxNested == 16
\* SpecSizes: how many arrays the writer opens in one message
MaxArrays == 3
\* SpecSizes: the body size up to which the writer goes on appending
MaxSize == 134217728

(***************************************************************************)
(* Tables of sd-bus.h, bus-type.c and errno.h                              *)
(***************************************************************************)
SD_BUS_TYPE ==
    [BYTE |-> 121, BOOLEAN |-> 98, INT16 |-> 110, UINT16 |-> 113,
     INT32 |-> 105, UINT32 |-> 117, INT64 |-> 120, UINT64 |-> 116,
     DOUBLE |-> 100, STRING |-> 115, OBJECT_PATH |-> 111, SIGNATURE |-> 103,
     UNIX_FD |-> 104, ARRAY |-> 97, VARIANT |-> 118,
     STRUCT |-> 114, STRUCT_BEGIN |-> 40, STRUCT_END |-> 41,
     DICT_ENTRY |-> 101, DICT_ENTRY_BEGIN |-> 123, DICT_ENTRY_END |-> 125]

SD_BUS_MESSAGE_TYPE ==
    [INVALID |-> 0, METHOD_CALL |-> 1, METHOD_RETURN |-> 2,
     METHOD_ERROR |-> 3, SIGNAL |-> 4]

SD_BUS_MESSAGE_HEADER ==
    [INVALID |-> 0, PATH |-> 1, INTERFACE |-> 2, MEMBER |-> 3,
     ERROR_NAME |-> 4, REPLY_SERIAL |-> 5, DESTINATION |-> 6, SENDER |-> 7,
     SIGNATURE |-> 8, UNIX_FDS |-> 9]

SD_BUS_MESSAGE_NO_REPLY_EXPECTED == 1

\* 'l': the model's host is little-endian
SD_BUS_NATIVE_ENDIAN == 108
\* 'B'
SD_BUS_REVERSE_ENDIAN == 66

BUS_CONTAINER_DEPTH == 64

BUS_ARRAY_MAX_SIZE == 67108864

Errno ==
    [EPERM |-> 1, ENOENT |-> 2, ENXIO |-> 6, ENOMEM |-> 12, EBUSY |-> 16,
     EEXIST |-> 17, EINVAL |-> 22, EBADMSG |-> 74]

BasicTypes ==
    {SD_BUS_TYPE.BYTE, SD_BUS_TYPE.BOOLEAN, SD_BUS_TYPE.INT16,
     SD_BUS_TYPE.UINT16, SD_BUS_TYPE.INT32, SD_BUS_TYPE.UINT32,
     SD_BUS_TYPE.INT64, SD_BUS_TYPE.UINT64, SD_BUS_TYPE.DOUBLE,
     SD_BUS_TYPE.STRING, SD_BUS_TYPE.OBJECT_PATH, SD_BUS_TYPE.SIGNATURE,
     SD_BUS_TYPE.UNIX_FD}

bus_type_is_basic(c) == c \in BasicTypes

bus_type_get_alignment(c) ==
    CASE c \in {SD_BUS_TYPE.BYTE, SD_BUS_TYPE.SIGNATURE, SD_BUS_TYPE.VARIANT} -> 1
      [] c \in {SD_BUS_TYPE.INT16, SD_BUS_TYPE.UINT16} -> 2
      [] c \in {SD_BUS_TYPE.BOOLEAN, SD_BUS_TYPE.INT32, SD_BUS_TYPE.UINT32,
                SD_BUS_TYPE.STRING, SD_BUS_TYPE.OBJECT_PATH, SD_BUS_TYPE.ARRAY,
                SD_BUS_TYPE.UNIX_FD} -> 4
      [] c \in {SD_BUS_TYPE.INT64, SD_BUS_TYPE.UINT64, SD_BUS_TYPE.DOUBLE,
                SD_BUS_TYPE.STRUCT, SD_BUS_TYPE.STRUCT_BEGIN,
                SD_BUS_TYPE.DICT_ENTRY, SD_BUS_TYPE.DICT_ENTRY_BEGIN} -> 8
      [] OTHER -> -Errno.EINVAL

bus_type_get_size(c) ==
    CASE c = SD_BUS_TYPE.BYTE -> 1
      [] c \in {SD_BUS_TYPE.INT16, SD_BUS_TYPE.UINT16} -> 2
      [] c \in {SD_BUS_TYPE.BOOLEAN, SD_BUS_TYPE.INT32, SD_BUS_TYPE.UINT32,
                SD_BUS_TYPE.UNIX_FD} -> 4
      [] c \in {SD_BUS_TYPE.INT64, SD_BUS_TYPE.UINT64, SD_BUS_TYPE.DOUBLE} -> 8
      [] OTHER -> -Errno.EINVAL

(***************************************************************************)
(* Bytes, integers and strings in memory                                   *)
(***************************************************************************)
ALIGN_TO(l, ali) == ((l + ali - 1) \div ali) * ali

\* the memory image of a uint32_t on the host
U32(x) ==
    <<x % 256, (x \div 256) % 256, (x \div 65536) % 256, (x \div 16777216) % 256>>

\* the uint32_t whose memory image starts at offset off of mem
RD32(mem, off) ==
    mem[off + 1] + 256 * mem[off + 2] + 65536 * mem[off + 3]
        + 16777216 * mem[off + 4]

Reverse(s) == [i \in 1..Len(s) |-> s[Len(s) + 1 - i]]

bswap_32(x) ==
    LET b == U32(x) IN b[4] + 256 * b[3] + 65536 * b[2] + 16777216 * b[1]

\* memcpy(mem + off, bytes, Len(bytes))
Write(mem, off, bytes) ==
    [i \in 1..Len(mem) |->
        IF i > off /\ i <= off + Len(bytes) THEN bytes[i - off] ELSE mem[i]]

\* the bytes of mem from offset off, n of them
Slice(mem, off, n) == SubSeq(mem, off + 1, off + n)

\* strlen(mem + off); the regions of the model always hold a NUL at or after off
RECURSIVE strlen_at(_, _)
strlen_at(mem, off) ==
    IF off >= Len(mem) \/ mem[off + 1] = 0 THEN 0
    ELSE 1 + strlen_at(mem, off + 1)

\* the C string at offset off of mem
CStr(mem, off) == Slice(mem, off, strlen_at(mem, off))

\* s[i] of the C string s (the terminating NUL at i = strlen(s))
CharAt(s, i) == IF i < Len(s) THEN s[i + 1] ELSE 0

startswith(s, i, prefix) ==
    /\ i + Len(prefix) <= Len(s)
    /\ SubSeq(s, i + 1, i + Len(prefix)) = prefix


(***************************************************************************)
(* The black-box predicates of bus-signature.c, bus-internal.c and utf8.c  *)
(***************************************************************************)
\* the length of the complete type at s[i], or -EINVAL
RECURSIVE signature_element_length_at(_, _, _)
RECURSIVE signature_sequence_end(_, _, _)
signature_element_length_at(s, i, allow_dict_entry) ==
    LET c == CharAt(s, i)
    IN  IF bus_type_is_basic(c) \/ c = SD_BUS_TYPE.VARIANT THEN 1
        ELSE IF c = SD_BUS_TYPE.ARRAY THEN
            LET t == signature_element_length_at(s, i + 1, TRUE)
            IN  IF t < 0 THEN t ELSE t + 1
        ELSE IF c = SD_BUS_TYPE.STRUCT_BEGIN THEN
            LET e == signature_sequence_end(s, i + 1, SD_BUS_TYPE.STRUCT_END)
            IN  IF e < 0 \/ e = i + 1 THEN -Errno.EINVAL ELSE e + 1 - i
        ELSE IF c = SD_BUS_TYPE.DICT_ENTRY_BEGIN /\ allow_dict_entry THEN
            LET k == signature_element_length_at(s, i + 2, FALSE)
            IN  IF /\ bus_type_is_basic(CharAt(s, i + 1))
                   /\ k > 0
                   /\ CharAt(s, i + 2 + k) = SD_BUS_TYPE.DICT_ENTRY_END
                THEN k + 3 ELSE -Errno.EINVAL
        ELSE -Errno.EINVAL

\* the index of the closing character that ends the complete types from s[i], or -EINVAL
signature_sequence_end(s, i, close) ==
    IF CharAt(s, i) = close THEN i
    ELSE LET t == signature_element_length_at(s, i, FALSE)
         IN  IF t < 0 THEN t ELSE signature_sequence_end(s, i + t, close)

signature_element_length(s, i) == signature_element_length_at(s, i, TRUE)

signature_is_single(s) == signature_element_length(s, 0) = Len(s)

signature_is_pair(s) ==
    /\ bus_type_is_basic(CharAt(s, 0))
    /\ signature_element_length(s, 1) = Len(s) - 1

signature_is_valid(s, allow_dict_entry) ==
    /\ Len(s) <= 255
    /\ signature_sequence_end(s, 0, 0) = Len(s)

utf8_is_valid(s) == \A i \in 1..Len(s) : s[i] < 128

\* '/' or /x/y without a trailing slash
object_path_is_valid(s) ==
    /\ Len(s) >= 1
    /\ s[1] = 47
    /\ (Len(s) > 1 => s[Len(s)] # 47)

\* at least two elements separated by a dot
interface_name_is_valid(s) ==
    /\ Len(s) >= 3
    /\ s[1] # 46 /\ s[Len(s)] # 46
    /\ \E i \in 1..Len(s) : s[i] = 46

member_name_is_valid(s) ==
    /\ Len(s) >= 1
    /\ \A i \in 1..Len(s) : s[i] # 46

error_name_is_valid(s) == interface_name_is_valid(s)

\* a unique name ":x.y" or a well-known name "x.y"
service_name_is_valid(s) ==
    /\ Len(s) >= 3
    /\ s[Len(s)] # 46
    /\ \E i \in 2..Len(s) : s[i] = 46

(***************************************************************************)
(* struct sd_bus_message and struct bus_container                          *)
(***************************************************************************)
\* NULL for a const char* argument or result
NULLSTR == <<-1>>

\* the element of a one-element set.  The({e(x) : x \in {v}}) is e(v) with v
\* computed once: the way a handler names the result of a call it makes
The(S) == CHOOSE x \in S : TRUE

\* a container frame: root_container or an element of containers[]
Frame(enclosing, signature, index, array_size, begin) ==
    [enclosing |-> enclosing, signature |-> signature, index |-> index,
     array_size |-> array_size, begin |-> begin]

\* what message_new's malloc0 leaves: every field zero; id names the object
NoMessage ==
    [id |-> 0, n_ref |-> 0, sealed |-> FALSE, dont_send |-> FALSE,
     header |-> [endian |-> 0, type |-> 0, flags |-> 0, version |-> 0,
                 body_size |-> 0, serial |-> 0, fields_size |-> 0],
     fields |-> 0, fields_mem |-> <<>>, body |-> 0, body_mem |-> <<>>,
     free_header |-> FALSE, free_fields |-> FALSE, free_body |-> FALSE,
     path |-> 0, interface |-> 0, member |-> 0, destination |-> 0,
     sender |-> 0, error_name |-> 0, error_message |-> 0,
     reply_serial |-> 0, n_fds |-> 0,
     root_container |-> Frame(0, <<>>, 0, 0, 0),
     containers |-> <<>>, rindex |-> 0, iovec |-> <<>>,
     peeked_signature |-> NULLSTR]

n_containers(msg) == Len(msg.containers)

BUS_MESSAGE_BSWAP32(msg, u) ==
    IF msg.header.endian = SD_BUS_NATIVE_ENDIAN THEN u ELSE bswap_32(u)

BUS_MESSAGE_SERIAL(msg) == BUS_MESSAGE_BSWAP32(msg, msg.header.serial)

BUS_MESSAGE_BODY_SIZE(msg) == BUS_MESSAGE_BSWAP32(msg, msg.header.body_size)

BUS_MESSAGE_FIELDS_SIZE(msg) == BUS_MESSAGE_BSWAP32(msg, msg.header.fields_size)

\* the string a quick-access pointer of the fields region designates (<<-1>>: NULL)
FieldStr(msg, ptr) ==
    IF ptr = 0 THEN <<-1>> ELSE CStr(msg.fields_mem, ptr - msg.fields)

\* the string a pointer into the body designates (<<-1>>: NULL)
BodyStr(msg, ptr) ==
    IF ptr = 0 THEN <<-1>> ELSE CStr(msg.body_mem, ptr - msg.body)

(***************************************************************************)
(* The allocator.  An allocation outcome al says which allocation of the   *)
(* call fails (al.fail, "none" for none), whether a successful realloc     *)
(* moves the block (al.move) and the byte fresh memory holds (al.junk).    *)
(***************************************************************************)
Alloc(fail, move, junk) == [fail |-> fail, move |-> move, junk |-> junk]

NoFail == Alloc("none", FALSE, 0)

\* realloc(p, n) of a block at p: NULL, p itself or one of the two addresses
\* lo, hi the model gives the region
realloc(p, lo, hi, fails, move) ==
    IF fails THEN 0
    ELSE IF p = 0 THEN lo
    ELSE IF move THEN (IF p = lo THEN hi ELSE lo)
    ELSE p

\* the block of old after realloc to n bytes: old bytes kept, fresh bytes junk
Resized(old, n, junk) ==
    [i \in 1..n |-> IF i <= Len(old) THEN old[i] ELSE junk]

(***************************************************************************)
(* Buffer manager                                                          *)
(***************************************************************************)
\* buffer_extend that leaves the padding as realloc returned it
buffer_extend_unzeroed(p, sz, mem, align, extend, lo, hi, fails, al) ==
    LET start == ALIGN_TO(sz, align)
        n == start + extend
        k == realloc(p, lo, hi, fails, al.move)
    IN  IF n = sz THEN [ret |-> p + start, p |-> p, sz |-> sz, mem |-> mem]
        ELSE IF k = 0 THEN [ret |-> 0, p |-> p, sz |-> sz, mem |-> mem]
        ELSE [ret |-> k + start, p |-> k, sz |-> n,
              mem |-> Resized(mem, n, al.junk)]

\* buffer_extend(&p, &sz, align, extend) on the block mem at p; ret is the
\* returned pointer.  The test n > UINT32_MAX is beyond the model's sizes.
buffer_extend(p, sz, mem, align, extend, lo, hi, fails, al) ==
    LET start == ALIGN_TO(sz, align)
        n == start + extend
        k == realloc(p, lo, hi, fails, al.move)
    IN  IF n = sz THEN [ret |-> p + start, p |-> p, sz |-> sz, mem |-> mem]
        ELSE IF k = 0 THEN [ret |-> 0, p |-> p, sz |-> sz, mem |-> mem]
        ELSE [ret |-> k + start, p |-> k, sz |-> n,
              mem |-> [i \in 1..n |->
                          IF i > sz /\ i <= start THEN 0
                          ELSE Resized(mem, n, al.junk)[i]]]

\* a quick-access pointer into the block that moved from o to p
\* a pointer left as it was when its region moves
rebase_never(ptr, o, p) == ptr

Rebase(ptr, o, p) == IF ptr # 0 THEN p + (ptr - o) ELSE ptr

message_extend_fields(msg, align, sz, fails, al) ==
    The({ IF b.ret = 0 THEN [p |-> 0, m |-> msg]
          ELSE LET moved(ptr) == IF msg.fields # b.p
                                 THEN Rebase(ptr, msg.fields, b.p) ELSE ptr
               IN  [p |-> b.ret,
                    m |-> [msg EXCEPT !.fields = b.p, !.fields_mem = b.mem,
                                      !.header.fields_size = b.sz,
                                      !.path = moved(@),
                                      !.interface = moved(@),
                                      !.member = moved(@),
                                      !.destination = moved(@),
                                      !.sender = moved(@),
                                      !.error_name = moved(@),
                                      !.free_fields = TRUE]]
        : b \in {buffer_extend(msg.fields, msg.header.fields_size,
                               msg.fields_mem, align, sz, 1000, 2000,
                               fails, al)} })

\* ret is the pointer the caller's const char **ret receives
message_append_field_string(msg, h, type, s, fails, al) ==
    The({ IF e.p = 0 THEN [r |-> -Errno.ENOMEM, m |-> msg, ret |-> 0]
          ELSE [r |-> 0,
                m |-> [e.m EXCEPT !.fields_mem =
                          Write(@, e.p - e.m.fields,
                                <<h, 1, type, 0>> \o U32(Len(s)) \o s \o <<0>>)],
                ret |-> e.p + 8]
        : e \in {message_extend_fields(msg, 8, 4 + 4 + Len(s) + 1, fails, al)} })

message_append_field_signature(msg, h, s, fails, al) ==
    IF Len(s) > 255 THEN [r |-> -Errno.EINVAL, m |-> msg, ret |-> 0]
    ELSE The({ IF e.p = 0 THEN [r |-> -Errno.ENOMEM, m |-> msg, ret |-> 0]
               ELSE [r |-> 0,
                     m |-> [e.m EXCEPT !.fields_mem =
                               Write(@, e.p - e.m.fields,
                                     <<h, 1, SD_BUS_TYPE.SIGNATURE, 0, Len(s)>>
                                         \o s \o <<0>>)],
                     ret |-> e.p + 5]
             : e \in {message_extend_fields(msg, 8, 4 + 1 + Len(s) + 1,
                                            fails, al)} })

\* x is the value's memory image
message_append_field_uint32(msg, h, x, fails, al) ==
    The({ IF e.p = 0 THEN [r |-> -Errno.ENOMEM, m |-> msg]
          ELSE [r |-> 0,
                m |-> [e.m EXCEPT !.fields_mem =
                          Write(@, e.p - e.m.fields,
                                <<h, 1, SD_BUS_TYPE.UINT32, 0>> \o x)]]
        : e \in {message_extend_fields(msg, 8, 4 + 4, fails, al)} })

(***************************************************************************)
(* Container stack and body writer                                         *)
(***************************************************************************)
message_get_container(msg) ==
    IF n_containers(msg) = 0 THEN msg.root_container
    ELSE msg.containers[n_containers(msg)]

\* an assignment through the pointer message_get_container returned
SetContainer(msg, c) ==
    IF n_containers(msg) = 0 THEN [msg EXCEPT !.root_container = c]
    ELSE [msg EXCEPT !.containers[n_containers(msg)] = c]

\* c->signature[c->index] = 0
Truncated(c) == [c EXCEPT !.signature = SubSeq(@, 1, c.index)]

\* *c->array_size += added for the frames i.. of the container stack
RECURSIVE AddToArraySizes(_, _, _, _, _)
AddToArraySizes(mem, frames, i, base, added) ==
    IF i > Len(frames) THEN mem
    ELSE IF frames[i].array_size = 0
    THEN AddToArraySizes(mem, frames, i + 1, base, added)
    ELSE LET off == frames[i].array_size - base
         IN  AddToArraySizes(Write(mem, off, U32(RD32(mem, off) + added)),
                             frames, i + 1, base, added)

message_extend_body(msg, align, sz, fails, al) ==
    The({ IF b.ret = 0 THEN [p |-> 0, m |-> msg]
          ELSE LET frames == [i \in 1..Len(msg.containers) |->
                                 [msg.containers[i] EXCEPT
                                     !.array_size = Rebase(@, msg.body, b.p)]]
               IN  [p |-> b.ret,
                    m |-> [msg EXCEPT
                              !.body = b.p,
                              !.header.body_size = b.sz,
                              !.containers = frames,
                              !.body_mem =
                                  AddToArraySizes(b.mem, frames, 1, b.p,
                                                  b.sz - msg.header.body_size),
                              !.error_message =
                                  IF msg.body # b.p
                                  THEN Rebase(@, msg.body, b.p) ELSE @,
                              !.free_body = TRUE]]
        : b \in {buffer_extend(msg.body, msg.header.body_size, msg.body_mem,
                               align, sz, 5000, 6000, fails, al)} })

\* the frame message_get_container returns, its index set to index unless it
\* is an array's
\* the index set in a frame of any kind, an array's included
indexed_in_arrays(msg, index) ==
    The({ SetContainer(msg, [c EXCEPT !.index = index])
        : c \in {message_get_container(msg)} })

Indexed(msg, index) ==
    The({ SetContainer(msg, IF c.enclosing # SD_BUS_TYPE.ARRAY
                            THEN [c EXCEPT !.index = index] ELSE c)
        : c \in {message_get_container(msg)} })

\* stored is the pointer the caller's const void **stored receives
message_append_basic(msg, type, p, al) ==
    LET c == message_get_container(msg)
        set == CharAt(c.signature, c.index) # 0
        isstr == type \in {SD_BUS_TYPE.STRING, SD_BUS_TYPE.OBJECT_PATH}
        issig == type = SD_BUS_TYPE.SIGNATURE
        fail(r) == [r |-> r, m |-> msg, stored |-> 0]
    IN  IF msg.id = 0 THEN fail(-Errno.EINVAL)
        ELSE IF msg.sealed THEN fail(-Errno.EPERM)
        ELSE IF ~bus_type_is_basic(type) THEN fail(-Errno.EINVAL)
        ELSE IF set /\ CharAt(c.signature, c.index) # type THEN fail(-Errno.ENXIO)
        ELSE IF ~set /\ c.enclosing # 0 THEN fail(-Errno.ENXIO)
        ELSE IF ~set /\ al.fail = "strextend" THEN fail(-Errno.ENOMEM)
        ELSE IF (isstr \/ issig) /\ p = NULLSTR THEN fail(-Errno.EINVAL)
        ELSE The({ The({ IF e.p = 0 THEN fail(-Errno.ENOMEM)
                         ELSE [r |-> 0,
                               m |-> Indexed(
                                        [e.m EXCEPT !.body_mem =
                                            Write(@, e.p - e.m.body, v.bytes)],
                                        message_get_container(e.m).index + 1),
                               stored |-> e.p + v.at]
                       : e \in {message_extend_body(
                                   SetContainer(msg,
                                       IF set THEN c
                                       ELSE [c EXCEPT !.signature =
                                                         @ \o <<type>>]),
                                   v.align, Len(v.bytes),
                                   al.fail = "body", al)} })
                 : v \in {IF isstr
                          THEN [align |-> 4, at |-> 4,
                                bytes |-> U32(Len(p)) \o p \o <<0>>]
                          ELSE IF issig
                          THEN [align |-> 1, at |-> 1,
                                bytes |-> <<1 + Len(p) + 1 - 1>> \o p \o <<0>>]
                          ELSE IF type = SD_BUS_TYPE.BOOLEAN
                          THEN [align |-> 4, at |-> 0,
                                bytes |-> IF p = <<0, 0, 0, 0>>
                                          THEN <<0, 0, 0, 0>>
                                          ELSE <<1, 0, 0, 0>>]
                          ELSE [align |-> bus_type_get_alignment(type),
                                at |-> 0,
                                bytes |-> SubSeq(p, 1, bus_type_get_size(type))]} })

\* message_append_basic leaving the root signature extended when it fails
\* after strextend
append_basic_keeping_signature(msg, type, p, al) ==
    LET c == message_get_container(msg)
    IN  The({ IF /\ x.r \in {-Errno.ENOMEM, -Errno.EINVAL}
                 /\ al.fail # "strextend" /\ bus_type_is_basic(type)
                 /\ c.enclosing = 0 /\ CharAt(c.signature, c.index) = 0
              THEN [x EXCEPT !.m = SetContainer(msg,
                                      [c EXCEPT !.signature = @ \o <<type>>])]
              ELSE x
            : x \in {message_append_basic(msg, type, p, al)} })

\* message_append_basic extending the signature of any frame, not the root's
\* alone
append_basic_extending_frames(msg, type, p, al) ==
    LET c == message_get_container(msg)
    IN  The({ IF x.r = -Errno.ENXIO /\ CharAt(c.signature, c.index) = 0
              THEN [x EXCEPT !.r = 0,
                             !.m = SetContainer(msg,
                                      [c EXCEPT !.signature = @ \o <<type>>,
                                                !.index = @ + 1])]
              ELSE x
            : x \in {message_append_basic(msg, type, p, al)} })

sd_bus_message_append_basic(msg, type, p, al) ==
    message_append_basic(msg, type, p, al)

bus_message_open_array(msg, contents, al) ==
    LET c == message_get_container(msg)
        alignment == bus_type_get_alignment(CharAt(contents, 0))
        set == CharAt(c.signature, c.index) # 0
        fail(r, mm) == [r |-> r, m |-> mm, array_size |-> 0]
    IN  IF ~signature_is_single(contents) THEN fail(-Errno.EINVAL, msg)
        ELSE IF alignment < 0 THEN fail(alignment, msg)
        ELSE IF set /\ CharAt(c.signature, c.index) # SD_BUS_TYPE.ARRAY
        THEN fail(-Errno.ENXIO, msg)
        ELSE IF set /\ ~startswith(c.signature, c.index + 1, contents)
        THEN fail(-Errno.ENXIO, msg)
        ELSE IF ~set /\ c.enclosing # 0 THEN fail(-Errno.ENXIO, msg)
        ELSE IF ~set /\ al.fail = "strextend" THEN fail(-Errno.ENOMEM, msg)
        ELSE The({
            IF e1.p = 0 THEN fail(-Errno.ENOMEM, msg)
            ELSE The({
                IF e2.p = 0
                THEN fail(-Errno.ENOMEM,
                          The({ SetContainer(
                                   [e1.m EXCEPT !.header.body_size =
                                                    msg.header.body_size],
                                   IF set THEN c1 ELSE Truncated(c1))
                              : c1 \in {message_get_container(e1.m)} }))
                ELSE LET a == e2.m.body + (e1.p - e1.m.body)
                     IN  [r |-> 0,
                          m |-> Indexed(
                                   [e2.m EXCEPT !.body_mem =
                                       Write(@, a - e2.m.body, U32(0))],
                                   IF set THEN c.index + 1 + Len(contents)
                                   ELSE Len(c.signature) + 1 + Len(contents)),
                          array_size |-> a]
              : e2 \in {message_extend_body(e1.m, alignment, 0,
                                            al.fail = "body2", al)} })
          : e1 \in {message_extend_body(
                       SetContainer(msg,
                           IF set THEN c
                           ELSE [c EXCEPT !.signature =
                                    @ \o <<SD_BUS_TYPE.ARRAY>> \o contents]),
                       4, 4, al.fail = "body", al)} })

bus_message_open_variant(msg, contents, al) ==
    LET c == message_get_container(msg)
        set == CharAt(c.signature, c.index) # 0
        fail(r) == [r |-> r, m |-> msg, array_size |-> 0]
    IN  IF ~signature_is_single(contents) THEN fail(-Errno.EINVAL)
        ELSE IF CharAt(contents, 0) = SD_BUS_TYPE.DICT_ENTRY_BEGIN
        THEN fail(-Errno.EINVAL)
        ELSE IF set /\ CharAt(c.signature, c.index) # SD_BUS_TYPE.VARIANT
        THEN fail(-Errno.ENXIO)
        ELSE IF ~set /\ c.enclosing # 0 THEN fail(-Errno.ENXIO)
        ELSE IF ~set /\ al.fail = "strextend" THEN fail(-Errno.ENOMEM)
        ELSE The({
            IF e.p = 0 THEN fail(-Errno.ENOMEM)
            ELSE [r |-> 0,
                  m |-> Indexed(
                           [e.m EXCEPT !.body_mem =
                               Write(@, e.p - e.m.body,
                                     <<Len(contents)>> \o contents \o <<0>>)],
                           message_get_container(e.m).index + 1),
                  array_size |-> 0]
          : e \in {message_extend_body(
                      SetContainer(msg,
                          IF set THEN c
                          ELSE [c EXCEPT !.signature =
                                   @ \o <<SD_BUS_TYPE.VARIANT>>]),
                      1, 1 + Len(contents) + 1, al.fail = "body", al)} })

\* bus_message_open_struct and bus_message_open_dict_entry after their own
\* first tests: open and close are the bracket characters
OpenBracketed(msg, contents, open, close, al) ==
    LET c == message_get_container(msg)
        set == CharAt(c.signature, c.index) # 0
        l == Len(contents)
        fail(r) == [r |-> r, m |-> msg, array_size |-> 0]
    IN  IF set /\ ( \/ CharAt(c.signature, c.index) # open
                    \/ ~startswith(c.signature, c.index + 1, contents)
                    \/ CharAt(c.signature, c.index + 1 + l) # close )
        THEN fail(-Errno.ENXIO)
        ELSE IF ~set /\ (c.enclosing # 0 \/ open = SD_BUS_TYPE.DICT_ENTRY_BEGIN)
        THEN fail(-Errno.ENXIO)
        ELSE IF ~set /\ al.fail = "strextend" THEN fail(-Errno.ENOMEM)
        ELSE The({
            IF e.p = 0 THEN fail(-Errno.ENOMEM)
            ELSE [r |-> 0,
                  m |-> Indexed(e.m, IF set THEN c.index + 1 + l + 1
                                     ELSE Len(c.signature) + 1 + l + 1),
                  array_size |-> 0]
          : e \in {message_extend_body(
                      SetContainer(msg,
                          IF set THEN c
                          ELSE [c EXCEPT !.signature =
                                   @ \o <<open>> \o contents \o <<close>>]),
                      8, 0, al.fail = "body", al)} })

bus_message_open_struct(msg, contents, al) ==
    IF ~signature_is_valid(contents, FALSE)
    THEN [r |-> -Errno.EINVAL, m |-> msg, array_size |-> 0]
    ELSE OpenBracketed(msg, contents, SD_BUS_TYPE.STRUCT_BEGIN,
                       SD_BUS_TYPE.STRUCT_END, al)

\* bus_message_open_dict_entry opening the entry outside an array as well
open_dict_entry_anywhere(msg, contents, al) ==
    IF ~signature_is_pair(contents)
    THEN [r |-> -Errno.EINVAL, m |-> msg, array_size |-> 0]
    ELSE IF message_get_container(msg).enclosing # SD_BUS_TYPE.ARRAY
    THEN [r |-> 0, m |-> msg, array_size |-> 0]
    ELSE OpenBracketed(msg, contents, SD_BUS_TYPE.DICT_ENTRY_BEGIN,
                       SD_BUS_TYPE.DICT_ENTRY_END, al)

bus_message_open_dict_entry(msg, contents, al) ==
    IF ~signature_is_pair(contents)
    THEN [r |-> -Errno.EINVAL, m |-> msg, array_size |-> 0]
    ELSE IF message_get_container(msg).enclosing # SD_BUS_TYPE.ARRAY
    THEN [r |-> -Errno.ENXIO, m |-> msg, array_size |-> 0]
    ELSE OpenBracketed(msg, contents, SD_BUS_TYPE.DICT_ENTRY_BEGIN,
                       SD_BUS_TYPE.DICT_ENTRY_END, al)

sd_bus_message_open_container(msg, type, contents, al) ==
    IF msg.id = 0 THEN [r |-> -Errno.EINVAL, m |-> msg]
    ELSE IF msg.sealed THEN [r |-> -Errno.EPERM, m |-> msg]
    ELSE IF contents = NULLSTR THEN [r |-> -Errno.EINVAL, m |-> msg]
    ELSE IF al.fail \in {"containers", "strdup"}
    THEN [r |-> -Errno.ENOMEM, m |-> msg]
    ELSE The({
        IF o.r < 0 THEN [r |-> o.r, m |-> o.m]
        ELSE [r |-> 0,
              m |-> [o.m EXCEPT !.containers =
                        Append(@, Frame(type, contents, 0, o.array_size, 0))]]
      : o \in {IF type = SD_BUS_TYPE.ARRAY
               THEN bus_message_open_array(msg, contents, al)
               ELSE IF type = SD_BUS_TYPE.VARIANT
               THEN bus_message_open_variant(msg, contents, al)
               ELSE IF type = SD_BUS_TYPE.STRUCT
               THEN bus_message_open_struct(msg, contents, al)
               ELSE IF type = SD_BUS_TYPE.DICT_ENTRY
               THEN bus_message_open_dict_entry(msg, contents, al)
               ELSE [r |-> -Errno.EINVAL, m |-> msg, array_size |-> 0]} })

\* sd_bus_message_close_container without the test of the signature index
close_container_unfinished(msg) ==
    IF msg.id = 0 THEN [r |-> -Errno.EINVAL, m |-> msg]
    ELSE IF msg.sealed THEN [r |-> -Errno.EPERM, m |-> msg]
    ELSE IF n_containers(msg) <= 0 THEN [r |-> -Errno.EINVAL, m |-> msg]
    ELSE [r |-> 0,
          m |-> [msg EXCEPT !.containers = SubSeq(@, 1, n_containers(msg) - 1)]]

sd_bus_message_close_container(msg) ==
    LET c == message_get_container(msg)
    IN  IF msg.id = 0 THEN [r |-> -Errno.EINVAL, m |-> msg]
        ELSE IF msg.sealed THEN [r |-> -Errno.EPERM, m |-> msg]
        ELSE IF n_containers(msg) <= 0 THEN [r |-> -Errno.EINVAL, m |-> msg]
        ELSE IF /\ c.enclosing # SD_BUS_TYPE.ARRAY
                /\ CharAt(c.signature, c.index) # 0
        THEN [r |-> -Errno.EINVAL, m |-> msg]
        ELSE [r |-> 0,
              m |-> [msg EXCEPT !.containers =
                        SubSeq(@, 1, n_containers(msg) - 1)]]

(***************************************************************************)
(* Constructors                                                            *)
(***************************************************************************)
\* flags |= SD_BUS_MESSAGE_NO_REPLY_EXPECTED, flags & ..., flags &= ~...
FlagSet(flags) == IF flags % 2 = 1 THEN flags ELSE flags + 1

FlagIsSet(flags) == flags % 2 = 1

FlagCleared(flags) == IF flags % 2 = 1 THEN flags - 1 ELSE flags

\* message_new(bus, type) with bus->message_version = 1; id names the new object
\* message_new handing out a message that is sealed from the start
message_new_sealed(id, type) ==
    [NoMessage EXCEPT !.id = id, !.n_ref = 1, !.sealed = TRUE,
                      !.header.endian = SD_BUS_NATIVE_ENDIAN,
                      !.header.type = type,
                      !.header.version = 1]

message_new(id, type) ==
    [NoMessage EXCEPT !.id = id, !.n_ref = 1,
                      !.header.endian = SD_BUS_NATIVE_ENDIAN,
                      !.header.type = type,
                      !.header.version = 1]

NoResult(r) == [r |-> r, m |-> NoMessage]

sd_bus_message_new_signal(id, path, interface, member, al) ==
    IF path = NULLSTR \/ interface = NULLSTR \/ member = NULLSTR
    THEN NoResult(-Errno.EINVAL)
    ELSE IF al.fail = "message" THEN NoResult(-Errno.ENOMEM)
    ELSE The({
        IF f1.r < 0 THEN NoResult(f1.r)
        ELSE The({
            IF f2.r < 0 THEN NoResult(f2.r)
            ELSE The({
                IF f3.r < 0 THEN NoResult(f3.r)
                ELSE [r |-> 0, m |-> [f3.m EXCEPT !.member = f3.ret]]
              : f3 \in {message_append_field_string(
                           [f2.m EXCEPT !.interface = f2.ret],
                           SD_BUS_MESSAGE_HEADER.MEMBER, SD_BUS_TYPE.STRING,
                           member, al.fail = "field3", al)} })
          : f2 \in {message_append_field_string(
                       [f1.m EXCEPT !.path = f1.ret],
                       SD_BUS_MESSAGE_HEADER.INTERFACE, SD_BUS_TYPE.STRING,
                       interface, al.fail = "field2", al)} })
      : f1 \in {message_append_field_string(
                   [message_new(id, SD_BUS_MESSAGE_TYPE.SIGNAL) EXCEPT
                       !.header.flags = FlagSet(@)],
                   SD_BUS_MESSAGE_HEADER.PATH, SD_BUS_TYPE.OBJECT_PATH,
                   path, al.fail = "field1", al)} })

sd_bus_message_new_method_call(id, destination, path, interface, member, al) ==
    IF path = NULLSTR \/ member = NULLSTR THEN NoResult(-Errno.EINVAL)
    ELSE IF al.fail = "message" THEN NoResult(-Errno.ENOMEM)
    ELSE The({
        IF f1.r < 0 THEN NoResult(f1.r)
        ELSE The({
            IF f2.r < 0 THEN NoResult(f2.r)
            ELSE The({
                IF f3.r < 0 THEN NoResult(f3.r)
                ELSE The({
                    IF f4.r < 0 THEN NoResult(f4.r)
                    ELSE [r |-> 0, m |-> [f4.m EXCEPT !.destination = f4.ret]]
                  : f4 \in {IF destination # NULLSTR
                            THEN message_append_field_string(
                                    [f3.m EXCEPT !.interface = f3.ret],
                                    SD_BUS_MESSAGE_HEADER.DESTINATION,
                                    SD_BUS_TYPE.STRING, destination,
                                    al.fail = "field4", al)
                            ELSE [r |-> 0,
                                  m |-> [f3.m EXCEPT !.interface = f3.ret],
                                  ret |-> f3.m.destination]} })
              : f3 \in {IF interface # NULLSTR
                        THEN message_append_field_string(
                                [f2.m EXCEPT !.member = f2.ret],
                                SD_BUS_MESSAGE_HEADER.INTERFACE,
                                SD_BUS_TYPE.STRING, interface,
                                al.fail = "field3", al)
                        ELSE [r |-> 0, m |-> [f2.m EXCEPT !.member = f2.ret],
                              ret |-> f2.m.interface]} })
          : f2 \in {message_append_field_string(
                       [f1.m EXCEPT !.path = f1.ret],
                       SD_BUS_MESSAGE_HEADER.MEMBER, SD_BUS_TYPE.STRING,
                       member, al.fail = "field2", al)} })
      : f1 \in {message_append_field_string(
                   message_new(id, SD_BUS_MESSAGE_TYPE.METHOD_CALL),
                   SD_BUS_MESSAGE_HEADER.PATH, SD_BUS_TYPE.OBJECT_PATH,
                   path, al.fail = "field1", al)} })

message_new_reply(id, call, type, al) ==
    IF call.id = 0 THEN NoResult(-Errno.EINVAL)
    ELSE IF ~call.sealed THEN NoResult(-Errno.EPERM)
    ELSE IF call.header.type # SD_BUS_MESSAGE_TYPE.METHOD_CALL
    THEN NoResult(-Errno.EINVAL)
    ELSE IF al.fail = "message" THEN NoResult(-Errno.ENOMEM)
    ELSE The({
        IF f1.r < 0 THEN NoResult(f1.r)
        ELSE The({
            IF f2.r < 0 THEN NoResult(f2.r)
            ELSE [r |-> 0,
                  m |-> [f2.m EXCEPT !.sender = f2.ret,
                                     !.dont_send = FlagIsSet(call.header.flags)]]
          : f2 \in {IF call.sender # 0
                    THEN message_append_field_string(f1.m,
                            SD_BUS_MESSAGE_HEADER.DESTINATION,
                            SD_BUS_TYPE.STRING, FieldStr(call, call.sender),
                            al.fail = "field2", al)
                    ELSE [r |-> 0, m |-> f1.m, ret |-> f1.m.sender]} })
      : f1 \in {message_append_field_uint32(
                   [message_new(id, type) EXCEPT
                       !.header.flags = FlagSet(@),
                       !.reply_serial = BUS_MESSAGE_SERIAL(call)],
                   SD_BUS_MESSAGE_HEADER.REPLY_SERIAL,
                   U32(BUS_MESSAGE_SERIAL(call)), al.fail = "field1", al)} })

sd_bus_message_new_method_return(id, call, al) ==
    message_new_reply(id, call, SD_BUS_MESSAGE_TYPE.METHOD_RETURN, al)

\* e is a sd_bus_error: [name, message], each a string or NULLSTR
sd_bus_error_is_set(e) == e.name # NULLSTR

sd_bus_message_new_method_error(id, call, e, al) ==
    IF ~sd_bus_error_is_set(e) THEN NoResult(-Errno.EINVAL)
    ELSE The({
        IF n.r < 0 THEN NoResult(n.r)
        ELSE The({
            IF f3.r < 0 THEN NoResult(f3.r)
            ELSE The({
                IF a.r < 0 THEN NoResult(a.r)
                ELSE [r |-> 0, m |-> [a.m EXCEPT !.error_message = a.stored]]
              : a \in {IF e.message # NULLSTR
                       THEN message_append_basic(
                               [f3.m EXCEPT !.error_name = f3.ret],
                               SD_BUS_TYPE.STRING, e.message, al)
                       ELSE [r |-> 0, m |-> [f3.m EXCEPT !.error_name = f3.ret],
                             stored |-> f3.m.error_message]} })
          : f3 \in {message_append_field_string(n.m,
                       SD_BUS_MESSAGE_HEADER.ERROR_NAME, SD_BUS_TYPE.STRING,
                       e.name, al.fail = "field3", al)} })
      : n \in {message_new_reply(id, call, SD_BUS_MESSAGE_TYPE.METHOD_ERROR,
                                 al)} })

(***************************************************************************)
(* Setters and seal                                                        *)
(***************************************************************************)
\* sd_bus_message_set_no_reply without the test of the sealed flag
set_no_reply_when_sealed(msg, b) ==
    IF msg.id = 0 THEN [r |-> -Errno.EINVAL, m |-> msg]
    ELSE IF msg.header.type # SD_BUS_MESSAGE_TYPE.METHOD_CALL
    THEN [r |-> -Errno.EPERM, m |-> msg]
    ELSE [r |-> 0,
          m |-> [msg EXCEPT !.header.flags =
                    IF b # 0 THEN FlagSet(@) ELSE FlagCleared(@)]]

sd_bus_message_set_no_reply(msg, b) ==
    IF msg.id = 0 THEN [r |-> -Errno.EINVAL, m |-> msg]
    ELSE IF msg.sealed THEN [r |-> -Errno.EPERM, m |-> msg]
    ELSE IF msg.header.type # SD_BUS_MESSAGE_TYPE.METHOD_CALL
    THEN [r |-> -Errno.EPERM, m |-> msg]
    ELSE [r |-> 0,
          m |-> [msg EXCEPT !.header.flags =
                    IF b # 0 THEN FlagSet(@) ELSE FlagCleared(@)]]

sd_bus_message_get_reply_serial(msg) ==
    IF msg.id = 0 THEN [r |-> -Errno.EINVAL, serial |-> 0]
    ELSE IF msg.reply_serial = 0 THEN [r |-> -Errno.ENOENT, serial |-> 0]
    ELSE [r |-> 0, serial |-> msg.reply_serial]

\* the string returned, NULLSTR for NULL
sd_bus_message_get_destination(msg) ==
    IF msg.id = 0 THEN NULLSTR ELSE FieldStr(msg, msg.destination)

sd_bus_message_get_sender(msg) ==
    IF msg.id = 0 THEN NULLSTR ELSE FieldStr(msg, msg.sender)

sd_bus_message_set_destination(msg, destination, al) ==
    IF msg.id = 0 THEN [r |-> -Errno.EINVAL, m |-> msg]
    ELSE IF destination = NULLSTR THEN [r |-> -Errno.EINVAL, m |-> msg]
    ELSE IF msg.sealed THEN [r |-> -Errno.EPERM, m |-> msg]
    ELSE IF msg.destination # 0 THEN [r |-> -Errno.EEXIST, m |-> msg]
    ELSE The({ IF f.r < 0 THEN [r |-> f.r, m |-> msg]
               ELSE [r |-> 0, m |-> [f.m EXCEPT !.destination = f.ret]]
             : f \in {message_append_field_string(msg,
                         SD_BUS_MESSAGE_HEADER.DESTINATION, SD_BUS_TYPE.STRING,
                         destination, al.fail = "field1", al)} })

\* an iovec entry: the region iov_base lies in and iov_len
Iov(what, len) == [what |-> what, len |-> len]

\* setup_iovec without the padding between fields and body
setup_iovec_unpadded(msg) ==
    LET fs == msg.header.fields_size
        v1 == <<Iov("header", 16)>>
        v2 == IF msg.fields # 0 THEN v1 \o <<Iov("fields", fs)>> ELSE v1
        v3 == IF msg.body # 0
              THEN v2 \o <<Iov("body", msg.header.body_size)>> ELSE v2
    IN  [msg EXCEPT !.iovec = v3]

setup_iovec(msg) ==
    LET fs == msg.header.fields_size
        v1 == <<Iov("header", 16)>>
        v2 == IF msg.fields # 0
              THEN v1 \o <<Iov("fields", fs)>>
                      \o (IF fs % 8 # 0 THEN <<Iov("padding", 8 - (fs % 8))>>
                          ELSE <<>>)
              ELSE v1
        v3 == IF msg.body # 0
              THEN v2 \o <<Iov("body", msg.header.body_size)>> ELSE v2
    IN  [msg EXCEPT !.iovec = v3]

\* serial is the memory image of the uint64_t argument
\* bus_message_seal once its tests have passed: the signature and unix-fds
\* header fields, the serial, the sealed flag and the iovec
\* SealFields without the SIGNATURE header field
seal_without_signature(msg, serial, al) ==
    The({
        IF f2.r < 0 THEN [r |-> f2.r, m |-> msg]
        ELSE [r |-> 0,
              m |-> setup_iovec([f2.m EXCEPT
                        !.header.serial = RD32(serial, 0),
                        !.sealed = TRUE])]
      : f2 \in {IF msg.n_fds > 0
                THEN message_append_field_uint32(msg,
                        SD_BUS_MESSAGE_HEADER.UNIX_FDS, U32(msg.n_fds),
                        al.fail = "field2", al)
                ELSE [r |-> 0, m |-> msg]} })

SealFields(msg, serial, al) ==
    The({
    IF f1.r < 0 THEN [r |-> f1.r, m |-> msg]
    ELSE The({
        IF f2.r < 0 THEN [r |-> f2.r, m |-> f1.m]
        ELSE [r |-> 0,
              m |-> setup_iovec([f2.m EXCEPT
                        !.header.serial = RD32(serial, 0),
                        !.sealed = TRUE])]
      : f2 \in {IF f1.m.n_fds > 0
                THEN message_append_field_uint32(f1.m,
                        SD_BUS_MESSAGE_HEADER.UNIX_FDS, U32(f1.m.n_fds),
                        al.fail = "field2", al)
                ELSE [r |-> 0, m |-> f1.m]} })
  : f1 \in {IF msg.root_container.signature # <<>>
            THEN message_append_field_signature(msg,
                    SD_BUS_MESSAGE_HEADER.SIGNATURE,
                    msg.root_container.signature, al.fail = "field1", al)
            ELSE [r |-> 0, m |-> msg, ret |-> 0]} })

\* bus_message_seal without the test for open containers
seal_with_open_containers(msg, serial, al) ==
    IF msg.sealed THEN [r |-> -Errno.EPERM, m |-> msg]
    ELSE SealFields(msg, serial, al)

bus_message_seal(msg, serial, al) ==
    IF msg.sealed THEN [r |-> -Errno.EPERM, m |-> msg]
    ELSE IF n_containers(msg) > 0 THEN [r |-> -Errno.EBADMSG, m |-> msg]
    ELSE SealFields(msg, serial, al)

\* the 16 bytes of struct bus_header
HeaderBytes(h) ==
    <<h.endian, h.type, h.flags, h.version>>
        \o U32(h.body_size) \o U32(h.serial) \o U32(h.fields_size)

RECURSIVE IovBytes(_, _)
IovBytes(msg, i) ==
    IF i > Len(msg.iovec) THEN <<>>
    ELSE LET v == msg.iovec[i]
             bytes == CASE v.what = "header" -> HeaderBytes(msg.header)
                        [] v.what = "fields" -> Slice(msg.fields_mem, 0, v.len)
                        [] v.what = "padding" -> [k \in 1..v.len |-> 0]
                        [] v.what = "body" -> Slice(msg.body_mem, 0, v.len)
                        [] v.what = "buffer" ->
                               HeaderBytes(msg.header) \o msg.fields_mem
         IN  bytes \o IovBytes(msg, i + 1)

\* the buffer bus_message_get_blob returns (NULLSTR: malloc failed)
bus_message_get_blob(msg, al) ==
    IF al.fail = "blob" THEN [r |-> -Errno.ENOMEM, buffer |-> NULLSTR]
    ELSE [r |-> 0, buffer |-> IovBytes(msg, 1)]

(***************************************************************************)
(* Reader                                                                  *)
(***************************************************************************)
\* buffer_peek(p, sz, &rindex, align, nbytes, &r): q is the offset of *r in p
buffer_peek(mem, sz, rindex, align, nbytes) ==
    LET start == ALIGN_TO(rindex, align)
        n == start + nbytes
    IN  IF n > sz THEN [r |-> -Errno.EBADMSG, rindex |-> rindex, q |-> 0]
        ELSE IF \E k \in rindex..(start - 1) : mem[k + 1] # 0
        THEN [r |-> -Errno.EBADMSG, rindex |-> rindex, q |-> 0]
        ELSE [r |-> 1, rindex |-> n, q |-> start]

\* BUS_MESSAGE_BSWAP32(m, *(uint32_t*) (mem + off))
PeekU32(msg, mem, off) ==
    IF msg.header.endian = SD_BUS_NATIVE_ENDIAN THEN RD32(mem, off)
    ELSE RD32(Reverse(Slice(mem, off, 4)), 0)

\* the value taken in the byte order of the host, whatever the message's
NativeImage(msg, bytes) == bytes

\* BUS_MESSAGE_BSWAP16/32/64 of the value whose memory image is bytes
BswapImage(msg, bytes) ==
    IF msg.header.endian = SD_BUS_NATIVE_ENDIAN THEN bytes ELSE Reverse(bytes)

\* message_end_of_array finding no array at its end
message_end_of_array_never(msg, index) == FALSE

message_end_of_array(msg, index) ==
    LET c == message_get_container(msg)
    IN  IF c.array_size = 0 THEN FALSE
        ELSE index >= c.begin + PeekU32(msg, msg.body_mem, c.array_size - msg.body)

message_peek_body(msg, rindex, align, nbytes) ==
    IF message_end_of_array(msg, rindex)
    THEN [r |-> 0, rindex |-> rindex, q |-> 0]
    ELSE buffer_peek(msg.body_mem, BUS_MESSAGE_BODY_SIZE(msg), rindex, align, nbytes)

\* validate_nul(mem + q, l)
validate_nul(mem, q, l) ==
    /\ \A i \in 1..l : mem[q + i] # 0
    /\ mem[q + l + 1] = 0

validate_string(mem, q, l) ==
    validate_nul(mem, q, l) /\ utf8_is_valid(CStr(mem, q))

validate_signature(mem, q, l) ==
    validate_nul(mem, q, l) /\ signature_is_valid(CStr(mem, q), TRUE)

validate_object_path(mem, q, l) ==
    validate_nul(mem, q, l) /\ object_path_is_valid(CStr(mem, q))

\* what a reader call returns: the message, the return code, the value stored
\* through the out pointer (out: its memory image, or the string a returned
\* pointer ptr designates), whether the call ran into an assertion (abort) and
\* whether it read memory past the end of the body's allocation (oob)
Ret(r, msg) ==
    [r |-> r, m |-> msg, out |-> <<>>, ptr |-> 0, abort |-> FALSE,
     oob |-> FALSE]

\* index++ unless the frame is an array's
Advanced(msg, n) ==
    LET c == message_get_container(msg)
    IN  IF c.enclosing # SD_BUS_TYPE.ARRAY
        THEN SetContainer(msg, [c EXCEPT !.index = @ + n]) ELSE msg

\* the length-prefixed string at the cursor; lensz is the size of the prefix.
\* l is a uint32_t and l + 1 is computed in 32 bits: UINT32_MAX is written -1,
\* so that l + 1 is 0; any other length of 2^30 or more is beyond every body
\* and is held at 2^30
PeekString(msg, lensz) ==
    LET fail(r) == [r |-> r, rindex |-> msg.rindex, q |-> 0, l |-> 0]
    IN  The({
            IF p1.r <= 0 THEN fail(p1.r)
            ELSE LET image == BswapImage(msg, Slice(msg.body_mem, p1.q, lensz))
                     l == IF lensz # 4 THEN image[1]
                          ELSE IF image = <<255, 255, 255, 255>> THEN -1
                          ELSE IF image[4] >= 64 THEN 1073741824
                          ELSE RD32(image, 0)
                 IN  The({ IF p2.r < 0 THEN fail(p2.r)
                           ELSE IF p2.r = 0 THEN fail(-Errno.EBADMSG)
                           ELSE [r |-> 1, rindex |-> p2.rindex, q |-> p2.q,
                                 l |-> l]
                         : p2 \in {message_peek_body(msg, p1.rindex, 1, l + 1)} })
          : p1 \in {message_peek_body(msg, msg.rindex, lensz, lensz)} })

sd_bus_message_read_basic(msg, type) ==
    LET c == message_get_container(msg)
        isstr == type \in {SD_BUS_TYPE.STRING, SD_BUS_TYPE.OBJECT_PATH}
        issig == type = SD_BUS_TYPE.SIGNATURE
    IN  IF msg.id = 0 THEN Ret(-Errno.EINVAL, msg)
        ELSE IF ~msg.sealed THEN Ret(-Errno.EPERM, msg)
        ELSE IF ~bus_type_is_basic(type) THEN Ret(-Errno.EINVAL, msg)
        ELSE IF CharAt(c.signature, c.index) = 0 THEN Ret(0, msg)
        ELSE IF CharAt(c.signature, c.index) # type THEN Ret(-Errno.ENXIO, msg)
        ELSE IF isstr \/ issig THEN
            The({ IF ps.r <= 0 THEN Ret(ps.r, msg)
                  ELSE IF ps.l < 0
                  THEN \* memchr(s, 0, UINT32_MAX): a NUL in what is left of
                       \* the allocation ends the search, otherwise the
                       \* search leaves the allocation
                       [Ret(-Errno.EBADMSG, msg) EXCEPT !.oob =
                           \A i \in ps.q + 1 .. Len(msg.body_mem) :
                              msg.body_mem[i] # 0]
                  ELSE IF ~(IF type = SD_BUS_TYPE.OBJECT_PATH
                            THEN validate_object_path(msg.body_mem, ps.q, ps.l)
                            ELSE IF issig
                            THEN validate_signature(msg.body_mem, ps.q, ps.l)
                            ELSE validate_string(msg.body_mem, ps.q, ps.l))
                  THEN Ret(-Errno.EBADMSG, msg)
                  ELSE [r |-> 1,
                        m |-> Advanced([msg EXCEPT !.rindex = ps.rindex], 1),
                        out |-> CStr(msg.body_mem, ps.q),
                        ptr |-> msg.body + ps.q, abort |-> FALSE,
                        oob |-> FALSE]
                : ps \in {PeekString(msg, IF issig THEN 1 ELSE 4)} })
        ELSE
            The({ The({ IF pb.r <= 0 THEN Ret(pb.r, msg)
                        ELSE IF type = SD_BUS_TYPE.UNIX_FD
                        THEN [r |-> 0, m |-> [msg EXCEPT !.rindex = pb.rindex],
                              out |-> <<>>, ptr |-> 0, abort |-> TRUE,
                              oob |-> FALSE]
                        ELSE LET raw == Slice(msg.body_mem, pb.q, sz)
                             IN  [r |-> 1,
                                  m |-> Advanced(
                                           [msg EXCEPT !.rindex = pb.rindex], 1),
                                  out |-> IF type = SD_BUS_TYPE.BYTE THEN raw
                                          ELSE IF type = SD_BUS_TYPE.BOOLEAN
                                          THEN (IF raw = <<0, 0, 0, 0>>
                                                THEN <<0, 0, 0, 0>>
                                                ELSE <<1, 0, 0, 0>>)
                                          ELSE BswapImage(msg, raw),
                                  ptr |-> 0, abort |-> FALSE,
                                  oob |-> FALSE]
                      : pb \in {message_peek_body(msg, msg.rindex,
                                   bus_type_get_alignment(type), sz)} })
                : sz \in {bus_type_get_size(type)} })

\* bus_message_enter_array without the test against BUS_ARRAY_MAX_SIZE
enter_array_of_any_size(msg, contents) ==
    LET c == message_get_container(msg)
        alignment == bus_type_get_alignment(CharAt(contents, 0))
        fail(r) == [r |-> r, m |-> msg, array_size |-> 0]
    IN  IF ~signature_is_single(contents) THEN fail(-Errno.EINVAL)
        ELSE IF alignment < 0 THEN fail(alignment)
        ELSE IF CharAt(c.signature, c.index) = 0 THEN fail(0)
        ELSE IF CharAt(c.signature, c.index) # SD_BUS_TYPE.ARRAY
        THEN fail(-Errno.ENXIO)
        ELSE IF ~startswith(c.signature, c.index + 1, contents)
        THEN fail(-Errno.ENXIO)
        ELSE The({
            IF p1.r <= 0 THEN fail(p1.r)
            ELSE The({
                IF p2.r < 0 THEN fail(p2.r)
                ELSE IF p2.r = 0 THEN fail(-Errno.EBADMSG)
                ELSE [r |-> 1,
                      m |-> [Advanced(msg, 1 + Len(contents)) EXCEPT
                                !.rindex = p2.rindex],
                      array_size |-> msg.body + p1.q]
              : p2 \in {message_peek_body(msg, p1.rindex, alignment, 0)} })
          : p1 \in {message_peek_body(msg, msg.rindex, 4, 4)} })

bus_message_enter_array(msg, contents) ==
    LET c == message_get_container(msg)
        alignment == bus_type_get_alignment(CharAt(contents, 0))
        fail(r) == [r |-> r, m |-> msg, array_size |-> 0]
    IN  IF ~signature_is_single(contents) THEN fail(-Errno.EINVAL)
        ELSE IF alignment < 0 THEN fail(alignment)
        ELSE IF CharAt(c.signature, c.index) = 0 THEN fail(0)
        ELSE IF CharAt(c.signature, c.index) # SD_BUS_TYPE.ARRAY
        THEN fail(-Errno.ENXIO)
        ELSE IF ~startswith(c.signature, c.index + 1, contents)
        THEN fail(-Errno.ENXIO)
        ELSE The({
            IF p1.r <= 0 THEN fail(p1.r)
            ELSE IF PeekU32(msg, msg.body_mem, p1.q) > BUS_ARRAY_MAX_SIZE
            THEN fail(-Errno.EBADMSG)
            ELSE The({
                IF p2.r < 0 THEN fail(p2.r)
                ELSE IF p2.r = 0 THEN fail(-Errno.EBADMSG)
                ELSE [r |-> 1,
                      m |-> [Advanced(msg, 1 + Len(contents)) EXCEPT
                                !.rindex = p2.rindex],
                      array_size |-> msg.body + p1.q]
              : p2 \in {message_peek_body(msg, p1.rindex, alignment, 0)} })
          : p1 \in {message_peek_body(msg, msg.rindex, 4, 4)} })

bus_message_enter_variant(msg, contents) ==
    LET c == message_get_container(msg)
        fail(r) == [r |-> r, m |-> msg, array_size |-> 0]
    IN  IF ~signature_is_single(contents) THEN fail(-Errno.EINVAL)
        ELSE IF CharAt(contents, 0) = SD_BUS_TYPE.DICT_ENTRY_BEGIN
        THEN fail(-Errno.EINVAL)
        ELSE IF CharAt(c.signature, c.index) = 0 THEN fail(0)
        ELSE IF CharAt(c.signature, c.index) # SD_BUS_TYPE.VARIANT
        THEN fail(-Errno.ENXIO)
        ELSE The({
            IF ps.r <= 0 THEN fail(ps.r)
            ELSE IF ~validate_signature(msg.body_mem, ps.q, ps.l)
            THEN fail(-Errno.EBADMSG)
            ELSE IF CStr(msg.body_mem, ps.q) # contents THEN fail(-Errno.ENXIO)
            ELSE [r |-> 1,
                  m |-> [Advanced(msg, 1) EXCEPT !.rindex = ps.rindex],
                  array_size |-> 0]
          : ps \in {PeekString(msg, 1)} })

\* bus_message_enter_struct and bus_message_enter_dict_entry after their own
\* first tests: open and close are the bracket characters
EnterBracketed(msg, contents, open, close) ==
    LET c == message_get_container(msg)
        l == Len(contents)
        fail(r) == [r |-> r, m |-> msg, array_size |-> 0]
    IN  IF CharAt(c.signature, c.index) = 0 THEN fail(0)
        ELSE IF \/ CharAt(c.signature, c.index) # open
                \/ ~startswith(c.signature, c.index + 1, contents)
                \/ CharAt(c.signature, c.index + 1 + l) # close
        THEN fail(-Errno.ENXIO)
        ELSE The({
            IF pb.r <= 0 THEN fail(pb.r)
            ELSE [r |-> 1,
                  m |-> Advanced([msg EXCEPT !.rindex = pb.rindex], 1 + l + 1),
                  array_size |-> 0]
          : pb \in {message_peek_body(msg, msg.rindex, 8, 0)} })

bus_message_enter_struct(msg, contents) ==
    IF ~signature_is_valid(contents, FALSE)
    THEN [r |-> -Errno.EINVAL, m |-> msg, array_size |-> 0]
    ELSE EnterBracketed(msg, contents, SD_BUS_TYPE.STRUCT_BEGIN,
                        SD_BUS_TYPE.STRUCT_END)

bus_message_enter_dict_entry(msg, contents) ==
    IF ~signature_is_pair(contents)
    THEN [r |-> -Errno.EINVAL, m |-> msg, array_size |-> 0]
    ELSE IF message_get_container(msg).enclosing # SD_BUS_TYPE.ARRAY
    THEN [r |-> -Errno.ENXIO, m |-> msg, array_size |-> 0]
    ELSE EnterBracketed(msg, contents, SD_BUS_TYPE.DICT_ENTRY_BEGIN,
                        SD_BUS_TYPE.DICT_ENTRY_END)

sd_bus_message_enter_container(msg, type, contents, al) ==
    LET c == message_get_container(msg)
    IN  IF msg.id = 0 THEN Ret(-Errno.EINVAL, msg)
        ELSE IF ~msg.sealed THEN Ret(-Errno.EPERM, msg)
        ELSE IF contents = NULLSTR THEN Ret(-Errno.EINVAL, msg)
        ELSE IF n_containers(msg) >= BUS_CONTAINER_DEPTH
        THEN Ret(-Errno.EBADMSG, msg)
        ELSE IF al.fail = "containers" THEN Ret(-Errno.ENOMEM, msg)
        ELSE IF CharAt(c.signature, c.index) = 0 THEN Ret(0, msg)
        ELSE IF al.fail = "strdup" THEN Ret(-Errno.ENOMEM, msg)
        ELSE The({
            IF o.r <= 0 THEN Ret(o.r, o.m)
            ELSE Ret(1, [o.m EXCEPT !.containers =
                            Append(@, Frame(type, contents, 0, o.array_size,
                                            o.m.rindex))])
          : o \in {IF type = SD_BUS_TYPE.ARRAY
                   THEN bus_message_enter_array(msg, contents)
                   ELSE IF type = SD_BUS_TYPE.VARIANT
                   THEN bus_message_enter_variant(msg, contents)
                   ELSE IF type = SD_BUS_TYPE.STRUCT
                   THEN bus_message_enter_struct(msg, contents)
                   ELSE IF type = SD_BUS_TYPE.DICT_ENTRY
                   THEN bus_message_enter_dict_entry(msg, contents)
                   ELSE [r |-> -Errno.EINVAL, m |-> msg, array_size |-> 0]} })

\* sd_bus_message_exit_container without the test of the array's length
exit_container_anywhere(msg) ==
    LET c == message_get_container(msg)
    IN  IF msg.id = 0 THEN Ret(-Errno.EINVAL, msg)
        ELSE IF ~msg.sealed THEN Ret(-Errno.EPERM, msg)
        ELSE IF n_containers(msg) <= 0 THEN Ret(-Errno.EINVAL, msg)
        ELSE IF c.enclosing # SD_BUS_TYPE.ARRAY /\ CharAt(c.signature, c.index) # 0
        THEN Ret(-Errno.EINVAL, msg)
        ELSE Ret(1, [msg EXCEPT !.containers =
                        SubSeq(@, 1, n_containers(msg) - 1)])

\* exit_container that leaves an array before refusing with -EBUSY
exit_container_then_refuse(msg) ==
    LET c == message_get_container(msg)
        l == PeekU32(msg, msg.body_mem, c.array_size - msg.body)
        left == [msg EXCEPT !.containers = SubSeq(@, 1, n_containers(msg) - 1)]
    IN  IF msg.id = 0 THEN Ret(-Errno.EINVAL, msg)
        ELSE IF ~msg.sealed THEN Ret(-Errno.EPERM, msg)
        ELSE IF n_containers(msg) <= 0 THEN Ret(-Errno.EINVAL, msg)
        ELSE IF c.enclosing = SD_BUS_TYPE.ARRAY /\ c.begin + l # msg.rindex
        THEN Ret(-Errno.EBUSY, left)
        ELSE IF c.enclosing # SD_BUS_TYPE.ARRAY /\ CharAt(c.signature, c.index) # 0
        THEN Ret(-Errno.EINVAL, msg)
        ELSE Ret(1, left)

sd_bus_message_exit_container(msg) ==
    LET c == message_get_container(msg)
        l == PeekU32(msg, msg.body_mem, c.array_size - msg.body)
    IN  IF msg.id = 0 THEN Ret(-Errno.EINVAL, msg)
        ELSE IF ~msg.sealed THEN Ret(-Errno.EPERM, msg)
        ELSE IF n_containers(msg) <= 0 THEN Ret(-Errno.EINVAL, msg)
        ELSE IF c.enclosing = SD_BUS_TYPE.ARRAY /\ c.begin + l # msg.rindex
        THEN Ret(-Errno.EBUSY, msg)
        ELSE IF c.enclosing # SD_BUS_TYPE.ARRAY /\ CharAt(c.signature, c.index) # 0
        THEN Ret(-Errno.EINVAL, msg)
        ELSE Ret(1, [msg EXCEPT !.containers =
                        SubSeq(@, 1, n_containers(msg) - 1)])

\* sd_bus_message_peek_type(m, &type, &contents), the caller asking for the
\* contents (contents != NULL) or not
sd_bus_message_peek_type(msg, want_contents, al) ==
    LET c == message_get_container(msg)
        t == CharAt(c.signature, c.index)
        res(r, mm, type, contents) ==
            [r |-> r, m |-> mm, type |-> type, contents |-> contents]
        eof == res(0, msg, c.enclosing, NULLSTR)
        cached(type, sig) ==
            IF al.fail = "strndup" THEN res(-Errno.ENOMEM, msg, 0, NULLSTR)
            ELSE res(1, [msg EXCEPT !.peeked_signature = sig], type, sig)
    IN  IF msg.id = 0 THEN res(-Errno.EINVAL, msg, 0, NULLSTR)
        ELSE IF ~msg.sealed THEN res(-Errno.EPERM, msg, 0, NULLSTR)
        ELSE IF t = 0 THEN eof
        ELSE IF message_end_of_array(msg, msg.rindex) THEN eof
        ELSE IF bus_type_is_basic(t) THEN res(1, msg, t, NULLSTR)
        ELSE IF t = SD_BUS_TYPE.ARRAY THEN
            IF ~want_contents THEN res(1, msg, SD_BUS_TYPE.ARRAY, NULLSTR)
            ELSE The({ IF l < 0 THEN res(l, msg, 0, NULLSTR)
                       ELSE cached(SD_BUS_TYPE.ARRAY,
                                   SubSeq(c.signature, c.index + 2,
                                          c.index + 1 + l))
                     : l \in {signature_element_length(c.signature,
                                                       c.index + 1)} })
        ELSE IF t \in {SD_BUS_TYPE.STRUCT_BEGIN, SD_BUS_TYPE.DICT_ENTRY_BEGIN} THEN
            LET type == IF t = SD_BUS_TYPE.STRUCT_BEGIN THEN SD_BUS_TYPE.STRUCT
                        ELSE SD_BUS_TYPE.DICT_ENTRY
            IN  IF ~want_contents THEN res(1, msg, type, NULLSTR)
                ELSE The({ IF l < 0 THEN res(l, msg, 0, NULLSTR)
                           ELSE cached(type,
                                       SubSeq(c.signature, c.index + 2,
                                              c.index + l - 1))
                         : l \in {signature_element_length(c.signature,
                                                           c.index)} })
        ELSE IF t = SD_BUS_TYPE.VARIANT THEN
            IF ~want_contents THEN res(1, msg, SD_BUS_TYPE.VARIANT, NULLSTR)
            ELSE The({
                IF p1.r < 0 THEN res(p1.r, msg, 0, NULLSTR)
                ELSE IF p1.r = 0 THEN eof
                ELSE The({
                    IF p2.r < 0 THEN res(p2.r, msg, 0, NULLSTR)
                    ELSE IF p2.r = 0 THEN res(-Errno.EBADMSG, msg, 0, NULLSTR)
                    ELSE IF ~validate_signature(msg.body_mem, p2.q,
                                                msg.body_mem[p1.q + 1])
                    THEN res(-Errno.EBADMSG, msg, 0, NULLSTR)
                    ELSE res(1, msg, SD_BUS_TYPE.VARIANT,
                             CStr(msg.body_mem, p2.q))
                  : p2 \in {message_peek_body(msg, p1.rindex, 1,
                                              msg.body_mem[p1.q + 1] + 1)} })
              : p1 \in {message_peek_body(msg, msg.rindex, 1, 1)} })
        ELSE res(-Errno.EINVAL, msg, 0, NULLSTR)

\* reset_containers
reset_containers(msg) ==
    [msg EXCEPT !.containers = <<>>, !.root_container.index = 0]

\* sd_bus_message_rewind without the test of the sealed flag
rewind_when_unsealed(msg, complete) ==
    LET full == [reset_containers(msg) EXCEPT !.rindex = 0,
                                              !.root_container.index = 0]
        c == message_get_container(msg)
        part == [SetContainer(msg, [c EXCEPT !.index = 0]) EXCEPT
                    !.rindex = c.begin]
        mm == IF complete THEN full ELSE part
    IN  IF msg.id = 0 THEN Ret(-Errno.EINVAL, msg)
        ELSE Ret(IF message_get_container(mm).signature # <<>> THEN 1 ELSE 0, mm)

\* rewind whose partial form goes back to the start of the body
rewind_frame_to_body(msg, complete) ==
    LET full == [reset_containers(msg) EXCEPT !.rindex = 0,
                                              !.root_container.index = 0]
        c == message_get_container(msg)
        part == [SetContainer(msg, [c EXCEPT !.index = 0]) EXCEPT
                    !.rindex = 0]
        mm == IF complete THEN full ELSE part
    IN  IF msg.id = 0 THEN Ret(-Errno.EINVAL, msg)
        ELSE IF ~msg.sealed THEN Ret(-Errno.EPERM, msg)
        ELSE Ret(IF message_get_container(mm).signature # <<>> THEN 1 ELSE 0, mm)

sd_bus_message_rewind(msg, complete) ==
    LET full == [reset_containers(msg) EXCEPT !.rindex = 0,
                                              !.root_container.index = 0]
        c == message_get_container(msg)
        part == [SetContainer(msg, [c EXCEPT !.index = 0]) EXCEPT
                    !.rindex = c.begin]
        mm == IF complete THEN full ELSE part
    IN  IF msg.id = 0 THEN Ret(-Errno.EINVAL, msg)
        ELSE IF ~msg.sealed THEN Ret(-Errno.EPERM, msg)
        ELSE Ret(IF message_get_container(mm).signature # <<>> THEN 1 ELSE 0, mm)

(***************************************************************************)
(* The variadic reader and writer.  ap is the va_list: the sequence of the *)
(* arguments not yet taken, each a memory image or a string (for an out    *)
(* pointer, <<>>).  The callee shares the va_list with its caller, as on   *)
(* the ABIs where va_list is an array type.                                *)
(***************************************************************************)
ReadableTypes == BasicTypes \ {SD_BUS_TYPE.UNIX_FD}

RECURSIVE message_read_ap(_, _, _, _, _, _)
RECURSIVE ReadElements(_, _, _, _, _, _)
RECURSIVE ReadContainer(_, _, _, _, _, _, _)

\* message_read_ap from types[t] on; outs collects the values read
message_read_ap(msg, types, t, ap, outs, al) ==
    LET c == CharAt(types, t)
        res(r, mm, a, o) == [r |-> r, m |-> mm, ap |-> a, outs |-> o]
    IN  IF c = 0 THEN res(1, msg, ap, outs)
        ELSE IF c \in ReadableTypes THEN
            The({ IF b.r < 0 THEN res(b.r, b.m, Tail(ap), outs)
                  ELSE IF b.r = 0 THEN res(-Errno.ENXIO, b.m, Tail(ap), outs)
                  ELSE message_read_ap(b.m, types, t + 1, Tail(ap),
                                       Append(outs, b.out), al)
                : b \in {sd_bus_message_read_basic(msg, c)} })
        ELSE IF c = SD_BUS_TYPE.ARRAY THEN
            The({ IF k < 0 THEN res(k, msg, ap, outs)
                  ELSE The({ ReadContainer(
                                e,
                                ReadElements(e.m,
                                    SubSeq(types, t + 2, t + 1 + k),
                                    Head(ap)[1], Tail(ap), outs, al),
                                ap, outs, types, t + 1 + k, al)
                           : e \in {sd_bus_message_enter_container(msg,
                                       SD_BUS_TYPE.ARRAY,
                                       SubSeq(types, t + 2, t + 1 + k), al)} })
                : k \in {signature_element_length(types, t + 1)} })
        ELSE IF c = SD_BUS_TYPE.VARIANT THEN
            IF Head(ap) = NULLSTR THEN res(-Errno.EINVAL, msg, Tail(ap), outs)
            ELSE The({ ReadContainer(
                          e,
                          message_read_ap(e.m, Head(ap), 0, Tail(ap), outs, al),
                          Tail(ap), outs, types, t + 1, al)
                     : e \in {sd_bus_message_enter_container(msg,
                                 SD_BUS_TYPE.VARIANT, Head(ap), al)} })
        ELSE IF c \in {SD_BUS_TYPE.STRUCT_BEGIN, SD_BUS_TYPE.DICT_ENTRY_BEGIN} THEN
            The({ IF k < 0 THEN res(k, msg, ap, outs)
                  ELSE The({ ReadContainer(
                                e,
                                message_read_ap(e.m,
                                    SubSeq(types, t + 2, t + k - 1),
                                    0, ap, outs, al),
                                ap, outs, types, t + k, al)
                           : e \in {sd_bus_message_enter_container(msg,
                                       IF c = SD_BUS_TYPE.STRUCT_BEGIN
                                       THEN SD_BUS_TYPE.STRUCT
                                       ELSE SD_BUS_TYPE.DICT_ENTRY,
                                       SubSeq(types, t + 2, t + k - 1), al)} })
                : k \in {signature_element_length(types, t)} })
        ELSE res(-Errno.EINVAL, msg, ap, outs)

\* what follows a container's enter e: the elements (inner, computed when the
\* enter succeeded), then exit and the types from nt on
ReadContainer(e, inner, rest, outs, types, nt, al) ==
    LET res(r, mm, a, o) == [r |-> r, m |-> mm, ap |-> a, outs |-> o]
    IN  IF e.r < 0 THEN res(e.r, e.m, rest, outs)
        ELSE IF e.r = 0 THEN res(-Errno.ENXIO, e.m, rest, outs)
        ELSE The({
            IF i.r < 0 THEN i
            ELSE The({ IF x.r < 0 THEN res(x.r, x.m, i.ap, i.outs)
                       ELSE IF x.r = 0 THEN res(-Errno.ENXIO, x.m, i.ap, i.outs)
                       ELSE message_read_ap(x.m, types, nt, i.ap, i.outs, al)
                     : x \in {sd_bus_message_exit_container(i.m)} })
          : i \in {inner} })

\* for (i = 0; i < n; i++) message_read_ap(m, s, ap)
ReadElements(msg, s, n, ap, outs, al) ==
    IF n = 0 THEN [r |-> 1, m |-> msg, ap |-> ap, outs |-> outs]
    ELSE The({ IF x.r < 0 THEN x
               ELSE ReadElements(x.m, s, n - 1, x.ap, x.outs, al)
             : x \in {message_read_ap(msg, s, 0, ap, outs, al)} })

sd_bus_message_read(msg, types, ap, al) ==
    IF msg.id = 0 THEN [r |-> -Errno.EINVAL, m |-> msg, outs |-> <<>>]
    ELSE IF ~msg.sealed THEN [r |-> -Errno.EPERM, m |-> msg, outs |-> <<>>]
    ELSE IF types = NULLSTR
    THEN [r |-> -Errno.EINVAL, m |-> msg, outs |-> <<>>]
    ELSE The({ [r |-> x.r, m |-> x.m, outs |-> x.outs]
             : x \in {message_read_ap(msg, types, 0, ap, <<>>, al)} })

RECURSIVE message_append_ap(_, _, _, _, _)
RECURSIVE AppendElements(_, _, _, _, _)
RECURSIVE AppendContainer(_, _, _, _, _, _)

\* message_append_ap from types[t] on
message_append_ap(msg, types, t, ap, al) ==
    LET c == CharAt(types, t)
        res(r, mm, a) == [r |-> r, m |-> mm, ap |-> a]
    IN  IF c = 0 THEN res(0, msg, ap)
        ELSE IF bus_type_is_basic(c) THEN
            The({ IF b.r < 0 THEN res(b.r, b.m, Tail(ap))
                  ELSE message_append_ap(b.m, types, t + 1, Tail(ap), al)
                : b \in {sd_bus_message_append_basic(msg, c,
                            SubSeq(Head(ap), 1,
                                   IF c = SD_BUS_TYPE.BYTE THEN 1
                                   ELSE IF c \in {SD_BUS_TYPE.INT16,
                                                  SD_BUS_TYPE.UINT16} THEN 2
                                   ELSE Len(Head(ap))),
                            al)} })
        ELSE IF c = SD_BUS_TYPE.ARRAY THEN
            The({ IF k < 0 THEN res(k, msg, ap)
                  ELSE The({ AppendContainer(
                                o,
                                AppendElements(o.m,
                                    SubSeq(types, t + 2, t + 1 + k),
                                    Head(ap)[1], Tail(ap), al),
                                ap, types, t + 1 + k, al)
                           : o \in {sd_bus_message_open_container(msg,
                                       SD_BUS_TYPE.ARRAY,
                                       SubSeq(types, t + 2, t + 1 + k), al)} })
                : k \in {signature_element_length(types, t + 1)} })
        ELSE IF c = SD_BUS_TYPE.VARIANT THEN
            IF Head(ap) = NULLSTR THEN res(-Errno.EINVAL, msg, Tail(ap))
            ELSE The({ AppendContainer(
                          o,
                          message_append_ap(o.m, Head(ap), 0, Tail(ap), al),
                          Tail(ap), types, t + 1, al)
                     : o \in {sd_bus_message_open_container(msg,
                                 SD_BUS_TYPE.VARIANT, Head(ap), al)} })
        ELSE IF c \in {SD_BUS_TYPE.STRUCT_BEGIN, SD_BUS_TYPE.DICT_ENTRY_BEGIN} THEN
            The({ IF k < 0 THEN res(k, msg, ap)
                  ELSE The({ AppendContainer(
                                o,
                                message_append_ap(o.m,
                                    SubSeq(types, t + 2, t + k - 1), 0, ap, al),
                                ap, types, t + k, al)
                           : o \in {sd_bus_message_open_container(msg,
                                       IF c = SD_BUS_TYPE.STRUCT_BEGIN
                                       THEN SD_BUS_TYPE.STRUCT
                                       ELSE SD_BUS_TYPE.DICT_ENTRY,
                                       SubSeq(types, t + 2, t + k - 1), al)} })
                : k \in {signature_element_length(types, t)} })
        ELSE res(-Errno.EINVAL, msg, ap)

\* what follows a container's open o: the elements (inner, computed when the
\* open succeeded), then close and the types from nt on
AppendContainer(o, inner, rest, types, nt, al) ==
    IF o.r < 0 THEN [r |-> o.r, m |-> o.m, ap |-> rest]
    ELSE The({
        IF i.r < 0 THEN i
        ELSE The({ IF x.r < 0 THEN [r |-> x.r, m |-> x.m, ap |-> i.ap]
                   ELSE message_append_ap(x.m, types, nt, i.ap, al)
                 : x \in {sd_bus_message_close_container(i.m)} })
      : i \in {inner} })

\* for (i = 0; i < n; i++) message_append_ap(m, s, ap)
AppendElements(msg, s, n, ap, al) ==
    IF n = 0 THEN [r |-> 0, m |-> msg, ap |-> ap]
    ELSE The({ IF x.r < 0 THEN x ELSE AppendElements(x.m, s, n - 1, x.ap, al)
             : x \in {message_append_ap(msg, s, 0, ap, al)} })

sd_bus_message_append(msg, types, ap, al) ==
    IF msg.id = 0 THEN [r |-> -Errno.EINVAL, m |-> msg]
    ELSE IF msg.sealed THEN [r |-> -Errno.EPERM, m |-> msg]
    ELSE IF types = NULLSTR THEN [r |-> -Errno.EINVAL, m |-> msg]
    ELSE The({ [r |-> x.r, m |-> x.m]
             : x \in {message_append_ap(msg, types, 0, ap, al)} })

(***************************************************************************)
(* Header field parser.  The peek functions return the new *ri with the    *)
(* return code; q is the offset the returned pointer has in the fields.    *)
(***************************************************************************)
message_peek_fields(msg, ri, align, nbytes) ==
    buffer_peek(msg.fields_mem, BUS_MESSAGE_FIELDS_SIZE(msg), ri, align, nbytes)

message_peek_field_uint32(msg, ri) ==
    The({ IF k.r < 0 THEN [r |-> k.r, ri |-> ri, ret |-> 0]
          ELSE [r |-> 0, ri |-> k.rindex,
                ret |-> PeekU32(msg, msg.fields_mem, k.q)]
        : k \in {message_peek_fields(msg, ri, 4, 4)} })

\* validate names the validator passed ("" for NULL)
message_peek_field_string(msg, validate, ri) ==
    LET fail(r) == [r |-> r, ri |-> ri, q |-> 0]
        ok(str) ==
            CASE validate = "object_path" -> object_path_is_valid(str)
              [] validate = "interface_name" -> interface_name_is_valid(str)
              [] validate = "member_name" -> member_name_is_valid(str)
              [] validate = "error_name" -> error_name_is_valid(str)
              [] validate = "service_name" -> service_name_is_valid(str)
    IN  The({
            IF u.r < 0 THEN fail(u.r)
            ELSE The({
                IF k.r < 0 THEN fail(k.r)
                ELSE IF validate # ""
                        /\ ~validate_nul(msg.fields_mem, k.q, u.ret)
                THEN fail(-Errno.EBADMSG)
                ELSE IF validate # "" /\ ~ok(CStr(msg.fields_mem, k.q))
                THEN fail(-Errno.EBADMSG)
                ELSE IF validate = ""
                        /\ ~validate_string(msg.fields_mem, k.q, u.ret)
                THEN fail(-Errno.EBADMSG)
                ELSE [r |-> 0, ri |-> k.rindex, q |-> k.q]
              : k \in {message_peek_fields(msg, u.ri, 1, u.ret + 1)} })
          : u \in {message_peek_field_uint32(msg, ri)} })

message_peek_field_signature(msg, ri) ==
    LET fail(r) == [r |-> r, ri |-> ri, q |-> 0]
    IN  The({
            IF k1.r < 0 THEN fail(k1.r)
            ELSE The({
                IF k2.r < 0 THEN fail(k2.r)
                ELSE IF ~validate_signature(msg.fields_mem, k2.q,
                                            msg.fields_mem[k1.q + 1])
                THEN fail(-Errno.EBADMSG)
                ELSE [r |-> 0, ri |-> k2.rindex, q |-> k2.q]
              : k2 \in {message_peek_fields(msg, k1.rindex, 1,
                                            msg.fields_mem[k1.q + 1] + 1)} })
          : k1 \in {message_peek_fields(msg, ri, 1, 1)} })

\* message_skip_fields(m, &ri, array_size, &signature), *signature being
\* sig + si; array_size -1 stands for (uint32_t) -1.  The local sig[l-1] is
\* filled by strncpy without a terminator: past is what the memory after it
\* holds, up to the first zero byte.
RECURSIVE SkipLoop(_, _, _, _, _, _, _)
message_skip_fields(msg, ri, array_size, sig, si, past) ==
    SkipLoop(msg, ri, ri, array_size, sig, si, past)

\* one turn of the for (;;) of message_skip_fields and the turns after it
SkipLoop(msg, ri, original_index, array_size, sig, si, past) ==
    LET t == CharAt(sig, si)
        res(r, i, j) == [r |-> r, ri |-> i, si |-> j]
        next(i, j) == SkipLoop(msg, i, original_index, array_size, sig, j, past)
    IN  IF array_size # -1 /\ array_size <= ri - original_index
        THEN res(0, ri, si)
        ELSE IF t = 0 THEN res(0, ri, si)
        ELSE IF t \in {SD_BUS_TYPE.STRING, SD_BUS_TYPE.OBJECT_PATH} THEN
            The({ IF k.r < 0 THEN res(k.r, ri, si) ELSE next(k.ri, si + 1)
                : k \in {message_peek_field_string(msg,
                            IF t = SD_BUS_TYPE.STRING THEN ""
                            ELSE "object_path", ri)} })
        ELSE IF t = SD_BUS_TYPE.SIGNATURE THEN
            The({ IF k.r < 0 THEN res(k.r, ri, si) ELSE next(k.ri, si + 1)
                : k \in {message_peek_field_signature(msg, ri)} })
        ELSE IF bus_type_is_basic(t) THEN
            The({ IF k.r < 0 THEN res(k.r, ri, si) ELSE next(k.rindex, si + 1)
                : k \in {message_peek_fields(msg, ri, bus_type_get_alignment(t),
                                             bus_type_get_size(t))} })
        ELSE IF t = SD_BUS_TYPE.ARRAY THEN
            The({
                IF l < 0 THEN res(l, ri, si)
                ELSE The({
                    IF alignment < 0 THEN res(alignment, ri, si)
                    ELSE The({
                        IF u.r < 0 THEN res(u.r, ri, si)
                        ELSE IF u.ret > BUS_ARRAY_MAX_SIZE
                        THEN res(-Errno.EBADMSG, ri, si)
                        ELSE The({
                            IF k.r < 0 THEN res(k.r, ri, si)
                            ELSE The({
                                IF x.r < 0 THEN res(x.r, ri, si)
                                ELSE next(x.ri, si + 1 + l)
                              : x \in {message_skip_fields(msg, k.rindex, u.ret,
                                          SubSeq(sig, si + 2, si + l) \o past,
                                          0, past)} })
                          : k \in {message_peek_fields(msg, u.ri, alignment,
                                                       0)} })
                      : u \in {message_peek_field_uint32(msg, ri)} })
                  : alignment \in {bus_type_get_alignment(
                                      CharAt(SubSeq(sig, si + 2, si + l)
                                                 \o past, 0))} })
              : l \in {signature_element_length(sig, si + 1)} })
        ELSE IF t = SD_BUS_TYPE.VARIANT THEN
            The({
                IF k.r < 0 THEN res(k.r, ri, si)
                ELSE The({ IF x.r < 0 THEN res(x.r, ri, si)
                           ELSE next(x.ri, si + 1)
                         : x \in {message_skip_fields(msg, k.ri, -1,
                                     CStr(msg.fields_mem, k.q), 0, past)} })
              : k \in {message_peek_field_signature(msg, ri)} })
        ELSE IF t \in {SD_BUS_TYPE.STRUCT, SD_BUS_TYPE.DICT_ENTRY} THEN
            The({
                IF l < 0 THEN res(l, ri, si)
                ELSE The({ IF x.r < 0 THEN res(x.r, ri, si)
                           ELSE next(x.ri, si + l)
                         : x \in {message_skip_fields(msg, ri, -1,
                                     SubSeq(sig, si + 2, si + l) \o past,
                                     0, past)} })
              : l \in {signature_element_length(sig, si)} })
        ELSE res(-Errno.EINVAL, ri, si)

RECURSIVE ParseLoop(_, _, _, _)
RECURSIVE ParseString(_, _, _, _, _, _, _, _)
RECURSIVE ParseField(_, _, _, _, _, _)

\* one turn of the for loop of message_parse_fields and the turns after it
ParseLoop(msg, ri, al, past) ==
    IF ~(ri < BUS_MESSAGE_FIELDS_SIZE(msg)) THEN [r |-> 0, m |-> msg]
    ELSE The({
        IF h.r < 0 THEN [r |-> h.r, m |-> msg]
        ELSE The({
            IF g.r < 0 THEN [r |-> g.r, m |-> msg]
            ELSE ParseField(msg, msg.fields_mem[h.q + 1],
                            CStr(msg.fields_mem, g.q), g.ri, al, past)
          : g \in {message_peek_field_signature(msg, h.rindex)} })
      : h \in {message_peek_fields(msg, ri, 8, 1)} })

\* a string field of the switch: the signature it must have, its validator and
\* the member of the message that receives the pointer
ParseString(msg, signature, want, validate, member, ri, al, past) ==
    IF signature # want THEN [r |-> -Errno.EBADMSG, m |-> msg]
    ELSE The({ IF k.r < 0 THEN [r |-> k.r, m |-> msg]
               ELSE ParseLoop([msg EXCEPT ![member] = msg.fields + k.q],
                              k.ri, al, past)
             : k \in {message_peek_field_string(msg, validate, ri)} })

\* the switch (*header) of message_parse_fields, ri being past the signature
ParseField(msg, header, signature, ri, al, past) ==
    LET H == SD_BUS_MESSAGE_HEADER
        fail(r, mm) == [r |-> r, m |-> mm]
    IN  IF header = H.INVALID THEN fail(-Errno.EBADMSG, msg)
        ELSE IF header \in {H.PATH, H.INTERFACE, H.MEMBER, H.ERROR_NAME,
                            H.DESTINATION, H.SENDER}
        THEN ParseString(msg, signature,
                 IF header = H.PATH THEN <<SD_BUS_TYPE.OBJECT_PATH>>
                 ELSE <<SD_BUS_TYPE.STRING>>,
                 CASE header = H.PATH -> "object_path"
                   [] header = H.INTERFACE -> "interface_name"
                   [] header = H.MEMBER -> "member_name"
                   [] header = H.ERROR_NAME -> "error_name"
                   [] header \in {H.DESTINATION, H.SENDER} -> "service_name",
                 CASE header = H.PATH -> "path"
                   [] header = H.INTERFACE -> "interface"
                   [] header = H.MEMBER -> "member"
                   [] header = H.ERROR_NAME -> "error_name"
                   [] header = H.DESTINATION -> "destination"
                   [] header = H.SENDER -> "sender",
                 ri, al, past)
        ELSE IF header = H.SIGNATURE THEN
            IF signature # <<SD_BUS_TYPE.SIGNATURE>>
            THEN fail(-Errno.EBADMSG, msg)
            ELSE The({ IF k.r < 0 THEN fail(k.r, msg)
                       ELSE IF al.fail = "strdup" THEN fail(-Errno.ENOMEM, msg)
                       ELSE ParseLoop([msg EXCEPT !.root_container.signature =
                                                      CStr(msg.fields_mem, k.q)],
                                      k.ri, al, past)
                     : k \in {message_peek_field_signature(msg, ri)} })
        ELSE IF header = H.REPLY_SERIAL THEN
            IF signature # <<SD_BUS_TYPE.UINT32>>
            THEN fail(-Errno.EBADMSG, msg)
            ELSE The({ IF k.r < 0 THEN fail(k.r, msg)
                       ELSE IF k.ret = 0
                       THEN fail(-Errno.EBADMSG,
                                 [msg EXCEPT !.reply_serial = k.ret])
                       ELSE ParseLoop([msg EXCEPT !.reply_serial = k.ret],
                                      k.ri, al, past)
                     : k \in {message_peek_field_uint32(msg, ri)} })
        ELSE The({ IF k.r < 0 THEN fail(k.r, msg)
                   ELSE ParseLoop(msg, k.ri, al, past)
                 : k \in {message_skip_fields(msg, ri, -1, signature, 0,
                                              past)} })

\* the tests after the loop, on the message mm the loop left
ParsedFields(mm, al) ==
    LET type == mm.header.type
        T == SD_BUS_MESSAGE_TYPE
    IN  IF (mm.root_container.signature = <<>>)
                # (BUS_MESSAGE_BODY_SIZE(mm) = 0)
        THEN [r |-> -Errno.EBADMSG, m |-> mm]
        ELSE IF type = T.SIGNAL
                /\ (mm.path = 0 \/ mm.interface = 0 \/ mm.member = 0)
        THEN [r |-> -Errno.EBADMSG, m |-> mm]
        ELSE IF type = T.METHOD_CALL /\ (mm.path = 0 \/ mm.member = 0)
        THEN [r |-> -Errno.EBADMSG, m |-> mm]
        ELSE IF type = T.METHOD_RETURN /\ mm.reply_serial = 0
        THEN [r |-> -Errno.EBADMSG, m |-> mm]
        ELSE IF type = T.METHOD_ERROR
                /\ (mm.reply_serial = 0 \/ mm.error_name = 0)
        THEN [r |-> -Errno.EBADMSG, m |-> mm]
        ELSE IF type = T.METHOD_ERROR
        THEN \* sd_bus_message_read(m, "s", &m->error.message), its result
             \* ignored: the pointer is stored if the read stored one
             The({ [r |-> 0,
                    m |-> [rd.m EXCEPT !.error_message =
                              IF rd.r > 0
                              THEN sd_bus_message_read_basic(
                                       mm, SD_BUS_TYPE.STRING).ptr
                              ELSE mm.error_message]]
                 : rd \in {sd_bus_message_read(mm, <<SD_BUS_TYPE.STRING>>,
                                               <<<<>>>>, al)} })
        ELSE [r |-> 0, m |-> mm]

message_parse_fields(msg, al, past) ==
    The({ IF f.r < 0 THEN f ELSE ParsedFields(f.m, al)
        : f \in {ParseLoop(msg, 0, al, past)} })

\* the address the model gives a received buffer
BufferAt == 9000

\* bus_message_from_malloc(buffer, length, NULL, NULL, &ret), length being the
\* buffer's; id names the object malloc0 returns; freed: free(buffer) was called
bus_message_from_malloc(id, buffer, al, past) ==
    LET length == Len(buffer)
        h == [endian |-> buffer[1], type |-> buffer[2], flags |-> buffer[3],
              version |-> buffer[4], body_size |-> RD32(buffer, 4),
              serial |-> RD32(buffer, 8), fields_size |-> RD32(buffer, 12)]
        fs == IF h.endian = SD_BUS_NATIVE_ENDIAN THEN h.fields_size
              ELSE bswap_32(h.fields_size)
        bs == IF h.endian = SD_BUS_NATIVE_ENDIAN THEN h.body_size
              ELSE bswap_32(h.body_size)
        fail(r, freed) == [r |-> r, m |-> NoMessage, freed |-> freed]
    IN  IF length < 16 THEN fail(-Errno.EBADMSG, FALSE)
        ELSE IF h.version # 1 THEN fail(-Errno.EBADMSG, FALSE)
        ELSE IF h.serial = 0 THEN fail(-Errno.EBADMSG, FALSE)
        ELSE IF h.type = SD_BUS_MESSAGE_TYPE.INVALID
        THEN fail(-Errno.EBADMSG, FALSE)
        ELSE IF h.endian \notin {SD_BUS_NATIVE_ENDIAN, SD_BUS_REVERSE_ENDIAN}
        THEN fail(-Errno.EBADMSG, FALSE)
        ELSE IF length # 16 + ALIGN_TO(fs, 8) + bs
        THEN fail(-Errno.EBADMSG, FALSE)
        ELSE IF al.fail = "message" THEN fail(-Errno.ENOMEM, FALSE)
        ELSE The({ IF f.r < 0 THEN fail(f.r, TRUE)
                   ELSE [r |-> 0, m |-> f.m, freed |-> FALSE]
                 : f \in {message_parse_fields(
                             [NoMessage EXCEPT
                                 !.id = id, !.n_ref = 1, !.header = h,
                                 !.free_header = TRUE,
                                 !.fields = BufferAt + 16,
                                 !.fields_mem = SubSeq(buffer, 17, length),
                                 !.body = BufferAt + 16 + ALIGN_TO(fs, 8),
                                 !.body_mem =
                                     SubSeq(buffer, 17 + ALIGN_TO(fs, 8), length),
                                 !.sealed = TRUE,
                                 !.iovec = <<Iov("buffer", length)>>],
                             al, past)} })

(***************************************************************************)
(* The caller.  It holds one message and calls the library on it; a reply  *)
(* or a parsed copy it makes of the message replaces the message held.     *)
(* After an abort the process makes no further call.  A call that leaves   *)
(* the message as it was is recorded in last and not continued from: the   *)
(* calls that can follow it are those that can follow the state before it, *)
(* which holds the same message.                                           *)
(***************************************************************************)
\* the arguments the caller passes
Path == <<47>>
Name == <<97, 46, 98>>
Member == <<77>>

AppendTypes ==
    {SD_BUS_TYPE.BYTE, SD_BUS_TYPE.BOOLEAN, SD_BUS_TYPE.STRING,
     SD_BUS_TYPE.SIGNATURE, SD_BUS_TYPE.UNIX_FD}

\* memory images (fixed-size types) and strings (string types) to append
Values(type) ==
    CASE type = SD_BUS_TYPE.BYTE -> {<<7>>}
      [] type = SD_BUS_TYPE.BOOLEAN -> {<<2, 0, 0, 0>>}
      [] type \in {SD_BUS_TYPE.INT16, SD_BUS_TYPE.UINT16} -> {<<1, 2>>}
      [] type \in {SD_BUS_TYPE.INT32, SD_BUS_TYPE.UINT32, SD_BUS_TYPE.UNIX_FD} ->
             {<<1, 2, 3, 4>>}
      [] type \in {SD_BUS_TYPE.INT64, SD_BUS_TYPE.UINT64, SD_BUS_TYPE.DOUBLE} ->
             {<<1, 2, 3, 4, 5, 6, 7, 8>>}
      [] type = SD_BUS_TYPE.STRING -> {<<104, 105>>}
      [] type = SD_BUS_TYPE.OBJECT_PATH -> {Path}
      [] type = SD_BUS_TYPE.SIGNATURE -> {<<SD_BUS_TYPE.BYTE>>}

\* container kinds and contents to open or enter
Containers ==
    {<<SD_BUS_TYPE.ARRAY, <<SD_BUS_TYPE.BYTE>>>>,
     <<SD_BUS_TYPE.ARRAY, <<SD_BUS_TYPE.DICT_ENTRY_BEGIN, SD_BUS_TYPE.BYTE,
                            SD_BUS_TYPE.BYTE, SD_BUS_TYPE.DICT_ENTRY_END>>>>,
     <<SD_BUS_TYPE.VARIANT, <<SD_BUS_TYPE.BYTE>>>>,
     <<SD_BUS_TYPE.STRUCT, <<SD_BUS_TYPE.BYTE>>>>,
     <<SD_BUS_TYPE.DICT_ENTRY, <<SD_BUS_TYPE.BYTE, SD_BUS_TYPE.BYTE>>>>,
     <<SD_BUS_TYPE.BYTE, <<SD_BUS_TYPE.BYTE>>>>}

\* type strings and va_lists for sd_bus_message_append: "u", "yu", "ay" with
\* two elements, "v" holding a byte
AppendCalls ==
    {<<<<SD_BUS_TYPE.UINT32>>, <<(<<1, 2, 3, 4>>)>>>>,
     <<<<SD_BUS_TYPE.BYTE, SD_BUS_TYPE.UINT32>>, <<(<<7>>), <<1, 2, 3, 4>>>>>>,
     <<<<SD_BUS_TYPE.ARRAY, SD_BUS_TYPE.BYTE>>, <<(<<2>>), <<7>>, <<8>>>>>>,
     <<<<SD_BUS_TYPE.VARIANT>>, <<(<<SD_BUS_TYPE.BYTE>>), <<7>>>>>>}

\* type strings and va_lists for sd_bus_message_read (out pointers as <<>>)
ReadCalls ==
    {<<<<SD_BUS_TYPE.UINT32>>, <<(<<>>)>>>>,
     <<<<SD_BUS_TYPE.ARRAY, SD_BUS_TYPE.BYTE>>, <<(<<2>>), <<>>, <<>>>>>>,
     <<<<SD_BUS_TYPE.VARIANT>>, <<(<<SD_BUS_TYPE.BYTE>>), <<>>>>>>}

\* the uint64_t serials passed to seal: 0, 1 and 2^32
Serials ==
    {<<0, 0, 0, 0, 0, 0, 0, 0>>, <<1, 0, 0, 0, 0, 0, 0, 0>>,
     <<0, 0, 0, 0, 1, 0, 0, 0>>}

\* the outcomes of a call's allocations: none fails, or the one named fails.
\* A realloc that grows a block moves it; fresh memory holds the byte 171.
Allocs(sites) ==
    {Alloc("none", TRUE, 171)} \cup {Alloc(f, TRUE, 171) : f \in sites}

\* the same, the blocks staying where they are
AllocsInPlace == {Alloc("none", FALSE, 171)}

\* the record of a call that returned r and left the caller holding mm
Call(op, r, mm) == [op |-> op, r |-> r, abort |-> FALSE, changed |-> mm # m]

Alive == ~last.abort /\ last.changed

\* the caller holds a message and may still grow its body
Writable ==
    /\ Alive /\ m.id # 0
    /\ n_containers(m) = 0 => BUS_MESSAGE_BODY_SIZE(m) <= MaxBody
    /\ message_get_container(m).array_size # 0 =>
          PeekU32(m, m.body_mem, message_get_container(m).array_size - m.body)
              <= MaxArray

Init ==
    /\ m = NoMessage
    /\ last = [op |-> "init", r |-> 0, abort |-> FALSE, changed |-> TRUE]

NewSignal ==
    /\ Alive /\ m.id = 0
    /\ \E member \in {Member, NULLSTR}, al \in Allocs({"message", "field2"}) :
          \E x \in {sd_bus_message_new_signal(1, Path, Name, member, al)} :
             /\ m' = x.m
             /\ last' = Call("new_signal", x.r, m')

NewMethodCall ==
    /\ Alive /\ m.id = 0
    /\ \E destination \in {Name}, al \in Allocs({"message"}) :
          \E x \in {sd_bus_message_new_method_call(1, destination, Path,
                                                  NULLSTR, Member, al)} :
             /\ m' = x.m
             /\ last' = Call("new_method_call", x.r, m')

\* a reply to the message held; it replaces the message when it is made
NewMethodReturn ==
    /\ Alive /\ m.id # 0 /\ m.id < MaxMsgs
    /\ \E al \in Allocs({"field1"}) :
          \E x \in {sd_bus_message_new_method_return(m.id + 1, m, al)} :
             /\ m' = IF x.r < 0 THEN m ELSE x.m
             /\ last' = Call("new_method_return", x.r, m')

NewMethodError ==
    /\ Alive /\ m.id # 0 /\ m.id < MaxMsgs
    /\ \E e \in {[name |-> Name, message |-> <<110, 111>>],
                 [name |-> NULLSTR, message |-> NULLSTR]},
          al \in Allocs({"field3"}) :
          \E x \in {sd_bus_message_new_method_error(m.id + 1, m, e, al)} :
             /\ m' = IF x.r < 0 THEN m ELSE x.m
             /\ last' = Call("new_method_error", x.r, m')

SetDestination ==
    /\ Alive /\ m.id # 0 /\ (m.sealed \/ m.body = 0)
    /\ \E destination \in {Name, NULLSTR},
          al \in Allocs({"field1"}) \cup AllocsInPlace :
          \E x \in {sd_bus_message_set_destination(m, destination, al)} :
             /\ m' = x.m
             /\ last' = Call("set_destination", x.r, m')

SetNoReply ==
    /\ Alive /\ m.id # 0 /\ (m.sealed \/ m.body = 0)
    /\ \E b \in {0, 1} :
          \E x \in {sd_bus_message_set_no_reply(m, b)} :
             /\ m' = x.m
             /\ last' = Call("set_no_reply", x.r, m')

AppendBasic ==
    /\ Writable
    /\ \E type \in AppendTypes, al \in Allocs({"body"}) :
          \E p \in Values(type) :
             \E x \in {sd_bus_message_append_basic(m, type, p, al)} :
                /\ m' = x.m
                /\ last' = Call("append_basic", x.r, m')

OpenContainer ==
    /\ Writable
    /\ \E c \in Containers,
          al \in Allocs({"strdup", "body2"}) :
          \E x \in {sd_bus_message_open_container(m, c[1], c[2], al)} :
             /\ m' = x.m
             /\ last' = Call("open_container", x.r, m')

CloseContainer ==
    /\ Alive /\ m.id # 0
    /\ \E x \in {sd_bus_message_close_container(m)} :
          /\ m' = x.m
          /\ last' = Call("close_container", x.r, m')

AppendMany ==
    /\ Writable
    /\ \E c \in AppendCalls :
          \E x \in {sd_bus_message_append(m, c[1], c[2], NoFail)} :
             /\ m' = x.m
             /\ last' = Call("append", x.r, m')

Seal ==
    /\ Alive /\ m.id # 0
    /\ \E serial \in Serials, al \in Allocs({"field1"}) :
          \E x \in {bus_message_seal(m, serial, al)} :
             /\ m' = x.m
             /\ last' = Call("seal", x.r, m')

\* bus_message_get_blob, then bus_message_from_malloc of what it returned
FromMalloc ==
    /\ Alive /\ m.id # 0 /\ m.id < MaxMsgs /\ m.sealed
    /\ \E al \in Allocs({"blob", "message"}) :
          \E b \in {bus_message_get_blob(m, al)} :
             IF b.r < 0
             THEN m' = m /\ last' = Call("get_blob", b.r, m)
             ELSE \E x \in {bus_message_from_malloc(m.id + 1, b.buffer, al,
                                                    <<>>)} :
                     /\ m' = IF x.r < 0 THEN m ELSE x.m
                     /\ last' = Call("from_malloc", x.r, m')

PeekType ==
    /\ Alive /\ m.id # 0
    /\ \E want_contents \in BOOLEAN, al \in {NoFail, Alloc("strndup", FALSE, 0)} :
          \E x \in {sd_bus_message_peek_type(m, want_contents, al)} :
             /\ m' = x.m
             /\ last' = Call("peek_type", x.r, m')

ReadBasic ==
    /\ Alive /\ m.id # 0
    /\ \E type \in AppendTypes :
          \E x \in {sd_bus_message_read_basic(m, type)} :
             /\ m' = x.m
             /\ \E fault \in {f \in BOOLEAN : f => x.oob} :
                   last' = [Call("read_basic", x.r, m')
                               EXCEPT !.abort = x.abort \/ fault]

Read ==
    /\ Alive /\ m.id # 0
    /\ \E c \in ReadCalls :
          \E x \in {sd_bus_message_read(m, c[1], c[2], NoFail)} :
             /\ m' = x.m
             /\ last' = Call("read", x.r, m')

EnterContainer ==
    /\ Alive /\ m.id # 0
    /\ \E c \in Containers, al \in Allocs({"containers"}) :
          \E x \in {sd_bus_message_enter_container(m, c[1], c[2], al)} :
             /\ m' = x.m
             /\ last' = Call("enter_container", x.r, m')

ExitContainer ==
    /\ Alive /\ m.id # 0
    /\ \E x \in {sd_bus_message_exit_container(m)} :
          /\ m' = x.m
          /\ last' = Call("exit_container", x.r, m')

Rewind ==
    /\ Alive /\ m.id # 0
    /\ \E complete \in BOOLEAN :
          \E x \in {sd_bus_message_rewind(m, complete)} :
             /\ m' = x.m
             /\ last' = Call("rewind", x.r, m')

Next ==
    \/ NewSignal
    \/ NewMethodCall
    \/ NewMethodReturn
    \/ NewMethodError
    \/ SetDestination
    \/ SetNoReply
    \/ AppendBasic
    \/ OpenContainer
    \/ CloseContainer
    \/ AppendMany
    \/ Seal
    \/ FromMalloc
    \/ PeekType
    \/ ReadBasic
    \/ Read
    \/ EnterContainer
    \/ ExitContainer
    \/ Rewind

Spec == Init /\ [][Next]_vars

(***************************************************************************)
(* A caller that nests containers: on a fresh method call it opens         *)
(* variants inside variants, puts a byte into the innermost one, closes    *)
(* them, seals the message, rewinds it and enters the variants again.      *)
(***************************************************************************)
\* the contents of the variants it opens and enters: "v" or "y"
DepthContents == {<<SD_BUS_TYPE.VARIANT>>, <<SD_BUS_TYPE.BYTE>>}

InitDepth ==
    /\ m = sd_bus_message_new_method_call(1, NULLSTR, Path, NULLSTR, Member,
                                          NoFail).m
    /\ last = [op |-> "new_method_call", r |-> 0, abort |-> FALSE,
               changed |-> TRUE]

\* the writer stops trying once MaxOver containers beyond the limit are open
DepthOpen ==
    /\ Writable /\ ~m.sealed
    /\ n_containers(m) < BUS_CONTAINER_DEPTH + MaxOver
    /\ \E contents \in DepthContents, al \in Allocs({}) :
          \E x \in {sd_bus_message_open_container(m, SD_BUS_TYPE.VARIANT,
                                                  contents, al)} :
             /\ m' = x.m
             /\ last' = Call("open_container", x.r, m')

DepthAppend ==
    /\ Writable /\ ~m.sealed
    /\ \E al \in Allocs({}) :
          \E x \in {sd_bus_message_append_basic(m, SD_BUS_TYPE.BYTE, <<7>>, al)} :
             /\ m' = x.m
             /\ last' = Call("append_basic", x.r, m')

DepthClose ==
    /\ Alive /\ ~m.sealed
    /\ \E x \in {sd_bus_message_close_container(m)} :
          /\ m' = x.m
          /\ last' = Call("close_container", x.r, m')

DepthSeal ==
    /\ Alive /\ ~m.sealed
    /\ \E al \in Allocs({}) :
          \E x \in {bus_message_seal(m, <<1, 0, 0, 0, 0, 0, 0, 0>>, al)} :
             /\ m' = x.m
             /\ last' = Call("seal", x.r, m')

DepthEnter ==
    /\ Alive /\ m.sealed
    /\ \E contents \in DepthContents, al \in Allocs({}) :
          \E x \in {sd_bus_message_enter_container(m, SD_BUS_TYPE.VARIANT,
                                                   contents, al)} :
             /\ m' = x.m
             /\ last' = Call("enter_container", x.r, m')

DepthRewind ==
    /\ Alive /\ m.sealed
    /\ \E x \in {sd_bus_message_rewind(m, TRUE)} :
          /\ m' = x.m
          /\ last' = Call("rewind", x.r, m')

NextDepth ==
    \/ DepthOpen
    \/ DepthAppend
    \/ DepthClose
    \/ DepthSeal
    \/ DepthRewind
    \/ DepthEnter

SpecDepth == InitDepth /\ [][NextDepth]_vars

(***************************************************************************)
(* A caller that nests arrays: on a fresh method call it opens arrays of   *)
(* uint64 ("at") inside an array of such arrays ("aat"), appends uint64    *)
(* elements, closes the arrays and seals the message.  The realloc that    *)
(* makes room for the padding in front of the first element may fail.      *)
(***************************************************************************)
\* the contents of the arrays it opens: "at" or "t"
ArrayContents ==
    {<<SD_BUS_TYPE.ARRAY, SD_BUS_TYPE.UINT64>>, <<SD_BUS_TYPE.UINT64>>}

InitArray ==
    /\ m = sd_bus_message_new_method_call(1, NULLSTR, Path, NULLSTR, Member,
                                          NoFail).m
    /\ last = [op |-> "new_method_call", r |-> 0, abort |-> FALSE,
               changed |-> TRUE]

\* the writer stops adding once the body, or the length of the array it is
\* in, is more than MaxNested bytes
ArrayWritable ==
    /\ Alive /\ ~m.sealed /\ BUS_MESSAGE_BODY_SIZE(m) <= MaxNested
    /\ message_get_container(m).array_size # 0 =>
          PeekU32(m, m.body_mem, message_get_container(m).array_size - m.body)
              <= MaxNested

ArrayOpen ==
    /\ ArrayWritable
    /\ n_containers(m) = 0 => BUS_MESSAGE_BODY_SIZE(m) = 0
    /\ \E contents \in ArrayContents, al \in Allocs({"body2"}) :
          \E x \in {sd_bus_message_open_container(m, SD_BUS_TYPE.ARRAY,
                                                  contents, al)} :
             /\ m' = x.m
             /\ last' = Call("open_container", x.r, m')

\* an empty struct as the first value of the message
ArrayOpenStruct ==
    /\ ArrayWritable
    /\ m.root_container.signature = <<>>
    /\ \E al \in Allocs({}) :
          \E x \in {sd_bus_message_open_container(m, SD_BUS_TYPE.STRUCT,
                                                  <<>>, al)} :
             /\ m' = x.m
             /\ last' = Call("open_container", x.r, m')

ArrayAppend ==
    /\ ArrayWritable
    /\ n_containers(m) > 0
    /\ \E al \in Allocs({}) :
          \E x \in {sd_bus_message_append_basic(
                       m, SD_BUS_TYPE.UINT64, <<1, 2, 3, 4, 5, 6, 7, 8>>, al)} :
             /\ m' = x.m
             /\ last' = Call("append_basic", x.r, m')

ArrayClose ==
    /\ Alive /\ ~m.sealed
    /\ \E x \in {sd_bus_message_close_container(m)} :
          /\ m' = x.m
          /\ last' = Call("close_container", x.r, m')

ArraySeal ==
    /\ Alive /\ ~m.sealed
    /\ \E al \in Allocs({}) :
          \E x \in {bus_message_seal(m, <<1, 0, 0, 0, 0, 0, 0, 0>>, al)} :
             /\ m' = x.m
             /\ last' = Call("seal", x.r, m')

NextArray ==
    \/ ArrayOpen
    \/ ArrayOpenStruct
    \/ ArrayAppend
    \/ ArrayClose
    \/ ArraySeal

SpecArray == InitArray /\ [][NextArray]_vars

\* ---------------------------------------------------------------------------
\* The writer reduced to sizes. The bytes of the body are left out; m holds
\* the body size, the length counters of the open arrays (outermost first),
\* the length prefixes of the arrays already closed (in the order of their
\* closing), and the sealed flag.
\* Every allocation succeeds.

\* strlen of the strings the caller appends
StringLengths == {16777216, 33554432, 67108864}

\* message_extend_body and buffer_extend: the new body size, and the bytes
\* added to the length counter of every open array (a counter is at most the
\* body size, which is below 2^32, so the uint32_t addition does not wrap)
extend_body_size(s, align, sz) ==
    LET start == ALIGN_TO(s.body_size, align)
        n == start + sz
    IN  IF n = s.body_size THEN [ok |-> TRUE, s |-> s]
        ELSE IF n \div 65536 >= 65536 THEN [ok |-> FALSE, s |-> s]
        ELSE [ok |-> TRUE,
              s |-> [s EXCEPT
                        !.body_size = n,
                        !.array_sizes =
                            [i \in DOMAIN @ |-> @[i] + (n - s.body_size)]]]

InitSizes ==
    /\ m = [body_size |-> 0, array_sizes |-> <<>>, prefixes |-> <<>>,
            sealed |-> FALSE]
    /\ last = [op |-> "new_method_call", r |-> 0]

\* open_container(ARRAY, "s"): the length prefix, then the padding before the
\* first element; the new array's counter starts at 0
SizesOpenArray ==
    /\ ~m.sealed
    /\ Len(m.prefixes) + Len(m.array_sizes) < MaxArrays
    /\ \E a \in {extend_body_size(m, 4, 4)} :
          /\ a.ok
          /\ \E b \in {extend_body_size(a.s, 4, 0)} :
                /\ b.ok
                /\ m' = [b.s EXCEPT !.array_sizes = Append(@, 0)]
    /\ last' = [op |-> "open_container", r |-> 0]

\* append_basic(STRING, p) with strlen(p) = len
SizesAppendString ==
    /\ ~m.sealed
    /\ m.body_size < MaxSize
    /\ \E len \in StringLengths :
          \E a \in {extend_body_size(m, 4, 4 + len + 1)} :
             /\ a.ok
             /\ m' = a.s
    /\ last' = [op |-> "append_basic", r |-> 0]

\* close_container: the counter of the innermost array is its length prefix
SizesClose ==
    /\ ~m.sealed
    /\ Len(m.array_sizes) > 0
    /\ m' = [m EXCEPT
                !.prefixes = Append(@, m.array_sizes[Len(m.array_sizes)]),
                !.array_sizes = SubSeq(@, 1, Len(@) - 1)]
    /\ last' = [op |-> "close_container", r |-> 0]

SizesSeal ==
    /\ ~m.sealed
    /\ Len(m.array_sizes) = 0
    /\ m' = [m EXCEPT !.sealed = TRUE]
    /\ last' = [op |-> "seal", r |-> 0]

NextSizes == SizesOpenArray \/ SizesAppendString \/ SizesClose \/ SizesSeal

SpecSizes == InitSizes /\ [][NextSizes]_vars

\* ---------------------------------------------------------------------------
\* The reader on buffers a peer sends: the blob of a method call the writer
\* builds, and forgeries of it.

\* the buffer with bytes stored at offset off
Patch(buffer, off, bytes) ==
    [i \in 1..Len(buffer) |->
        IF off < i /\ i <= off + Len(bytes) THEN bytes[i - off] ELSE buffer[i]]

\* the blob of a call to "a.b" of member "M" on "/" with the body "ay" {7, 8},
\* sealed with serial 1
Sent ==
    bus_message_get_blob(
        bus_message_seal(
            sd_bus_message_append(
                sd_bus_message_new_method_call(1, Name, Path, NULLSTR, Member,
                                               NoFail).m,
                <<SD_BUS_TYPE.ARRAY, SD_BUS_TYPE.BYTE>>,
                <<(<<2>>), <<7>>, <<8>>>>, NoFail).m,
            <<1, 0, 0, 0, 0, 0, 0, 0>>, NoFail).m,
        NoFail).buffer

\* a buffer laid out as Sent, as a peer of the other byte order sends it.
\* Words holds the offsets of the uint32_t values: body size, serial, fields
\* size, the lengths of path, member and destination, the length of the array
Reversed(buffer) ==
    LET Words == {4, 8, 12, 20, 36, 52, 72}
    IN  [i \in 1..Len(buffer) |->
            IF i = 1 THEN SD_BUS_REVERSE_ENDIAN
            ELSE IF \E off \in Words : off < i /\ i <= off + 4
            THEN buffer[2 * (CHOOSE off \in Words : off < i /\ i <= off + 4)
                        + 5 - i]
            ELSE buffer[i]]

\* Sent with the body replaced, and the fields from DESTINATION on replaced
\* by SIGNATURE sig
Forged(sig, body) ==
    Patch(Patch(SubSeq(Sent, 1, 48), 4, <<Len(body), 0, 0, 0>>),
          12, <<38 + Len(sig), 0, 0, 0>>)
    \o <<SD_BUS_MESSAGE_HEADER.SIGNATURE, 1, SD_BUS_TYPE.SIGNATURE, 0, Len(sig)>>
    \o sig \o [i \in 1..1 + ((10 - Len(sig)) % 8) |-> 0] \o body

\* buffers of the native byte order, each with the buffer a peer of the other
\* byte order sends for the same message.  Mirror reverses the bytes of the
\* integers at spans, pairs of offset and size; Header holds the integers of
\* header, PATH and MEMBER
EndianPairs ==
    LET Mirror(buffer, spans) ==
            [i \in 1..Len(buffer) |->
                IF i = 1 THEN SD_BUS_REVERSE_ENDIAN
                ELSE IF \E sp \in spans : sp[1] < i /\ i <= sp[1] + sp[2]
                THEN LET sp == CHOOSE sp \in spans :
                                  sp[1] < i /\ i <= sp[1] + sp[2]
                     IN  buffer[2 * sp[1] + sp[2] + 1 - i]
                ELSE buffer[i]]
        Header == {<<4, 4>>, <<8, 4>>, <<12, 4>>, <<20, 4>>, <<36, 4>>}
        Pair(buffer, spans) == <<buffer, Mirror(buffer, Header \cup spans)>>
    IN  {<<Sent, Reversed(Sent)>>,
         \* "uq": a uint32 and a uint16
         Pair(Forged(<<SD_BUS_TYPE.UINT32, SD_BUS_TYPE.UINT16>>,
                     <<1, 2, 3, 4, 5, 6>>),
              {<<56, 4>>, <<60, 2>>}),
         \* "bn": TRUE and an int16
         Pair(Forged(<<SD_BUS_TYPE.BOOLEAN, SD_BUS_TYPE.INT16>>,
                     <<1, 0, 0, 0, 255, 254>>),
              {<<56, 4>>, <<60, 2>>}),
         \* "st": "hi" and a uint64
         Pair(Forged(<<SD_BUS_TYPE.STRING, SD_BUS_TYPE.UINT64>>,
                     <<2, 0, 0, 0, 104, 105, 0, 0, 1, 2, 3, 4, 5, 6, 7, 8>>),
              {<<56, 4>>, <<64, 8>>}),
         \* "aq": an array of two uint16
         Pair(Forged(<<SD_BUS_TYPE.ARRAY, SD_BUS_TYPE.UINT16>>,
                     <<4, 0, 0, 0, 1, 2, 3, 4>>),
              {<<56, 4>>, <<60, 2>>, <<62, 2>>}),
         \* Sent with REPLY_SERIAL 513 and UNIX_FDS 0 in the place of
         \* DESTINATION
         Pair(Patch(Sent, 48, <<5, 1, 117, 0, 1, 2, 0, 0,
                                9, 1, 117, 0, 0, 0, 0, 0>>),
              {<<52, 4>>, <<60, 4>>, <<72, 4>>})}

\* what the peer sends; Oversized is an array length of 64 MiB + 1
Buffers ==
    LET Oversized == <<1, 0, 0, 4>>
    IN
    {Sent, Reversed(Sent),
     \* the array's length above BUS_ARRAY_MAX_SIZE
     Patch(Sent, 72, Oversized), Reversed(Patch(Sent, 72, Oversized)),
     \* SENDER in the place of DESTINATION
     Patch(Sent, 48, <<SD_BUS_MESSAGE_HEADER.SENDER>>),
     \* a short header, version 2, serial 0, types 0 and 5, endian 'x'
     SubSeq(Sent, 1, 15), Patch(Sent, 3, <<2>>), Patch(Sent, 8, <<0, 0, 0, 0>>),
     Patch(Sent, 1, <<0>>), Patch(Sent, 1, <<5>>), Patch(Sent, 0, <<120>>),
     \* a byte too many, a body size in the wrong byte order
     Sent \o <<0>>, Patch(Reversed(Sent), 4, <<6, 0, 0, 0>>),
     \* a signature without a body
     SubSeq(Patch(Sent, 4, <<0, 0, 0, 0>>), 1, 72),
     \* SENDER in the place of MEMBER; a METHOD_RETURN, a METHOD_ERROR and a
     \* SIGNAL with the fields of a call
     Patch(Sent, 32, <<SD_BUS_MESSAGE_HEADER.SENDER>>),
     Patch(Sent, 1, <<2>>), Patch(Sent, 1, <<3>>), Patch(Sent, 1, <<4>>),
     \* PATH as "s", MEMBER and DESTINATION as "o", SIGNATURE as "s"
     Patch(Sent, 18, <<115>>), Patch(Sent, 34, <<111>>),
     Patch(Sent, 50, <<111>>), Patch(Sent, 66, <<115>>),
     \* in the place of DESTINATION: the field code 0; INTERFACE, ERROR_NAME
     \* and SENDER as "o"; REPLY_SERIAL and UNIX_FDS as "s"
     Patch(Sent, 48, <<0>>), Patch(Sent, 48, <<2, 1, 111>>),
     Patch(Sent, 48, <<4, 1, 111>>), Patch(Sent, 48, <<7, 1, 111>>),
     Patch(Sent, 48, <<5>>), Patch(Sent, 48, <<9>>),
     \* REPLY_SERIAL 0 and 1, each followed by UNIX_FDS 0
     Patch(Sent, 48, <<5, 1, 117, 0, 0, 0, 0, 0, 9, 1, 117, 0, 0, 0, 0, 0>>),
     Patch(Sent, 48, <<5, 1, 117, 0, 1, 0, 0, 0, 9, 1, 117, 0, 0, 0, 0, 0>>),
     \* in the place of DESTINATION, fields of the unknown codes 10 and 200:
     \* "s" "a.b"; "u" and "y"; "v" holding the byte 7, and "y"; "ay" {7, 8};
     \* "ay" {7}; "(yy)" (7, 8)
     Patch(Sent, 48, <<10>>),
     Patch(Sent, 48, <<10, 1, 117, 0, 1, 2, 3, 4, 200, 1, 121, 0, 7, 0, 0, 0>>),
     Patch(Sent, 48, <<10, 1, 118, 0, 1, 121, 0, 7, 200, 1, 121, 0, 7, 0, 0, 0>>),
     Patch(Sent, 48, <<10, 2, 97, 121, 0, 0, 0, 0, 2, 0, 0, 0, 7, 8, 0, 0>>),
     Patch(Sent, 48, <<10, 2, 97, 121, 0, 0, 0, 0, 1, 0, 0, 0, 7, 0, 0, 0>>),
     Patch(Sent, 48, <<10, 4, 40, 121, 121, 41, 0, 0, 7, 8, 0, 0, 0, 0, 0, 0>>),
     \* bodies "yb": sound; a padding byte of 1; cut short inside the boolean
     Forged(<<121, 98>>, <<7, 0, 0, 0, 1, 0, 0, 0>>),
     Forged(<<121, 98>>, <<7, 0, 1, 0, 1, 0, 0, 0>>),
     Forged(<<121, 98>>, <<7, 0, 0, 0, 1, 0>>),
     \* bodies "ys" and "sy": a string of length 3 at the end of the body;
     \* "hi" and a byte; the length UINT32_MAX before "hijk", and before "h",
     \* NUL and two bytes
     Forged(<<121, 115>>, <<7, 0, 0, 0, 3, 0, 0, 0>>),
     Forged(<<115, 121>>, <<2, 0, 0, 0, 104, 105, 0, 7>>),
     Forged(<<115, 121>>, <<255, 255, 255, 255, 104, 105, 106, 107>>),
     Forged(<<115, 121>>, <<255, 255, 255, 255, 104, 0, 7, 0>>),
     \* bodies "yay" and "y(y)": sound; a padding byte of 1 before the array's
     \* length and before the struct
     Forged(<<121, 97, 121>>, <<7, 0, 0, 0, 1, 0, 0, 0, 9>>),
     Forged(<<121, 97, 121>>, <<7, 0, 0, 1, 1, 0, 0, 0, 9>>),
     Forged(<<121, 40, 121, 41>>, <<7, 0, 0, 0, 0, 0, 0, 0, 9>>),
     Forged(<<121, 40, 121, 41>>, <<7, 0, 0, 0, 0, 1, 0, 0, 9>>),
     \* bodies "v": the byte 7 under the signature "y", and under "("
     Forged(<<118>>, <<1, 121, 0, 7>>), Forged(<<118>>, <<1, 40, 0, 7>>),
     \* bodies "b": the values 2 and 256
     Forged(<<98>>, <<2, 0, 0, 0>>), Forged(<<98>>, <<0, 1, 0, 0>>)}
    \* METHOD_ERROR replies with ERROR_NAME "a.b", REPLY_SERIAL 1 and
    \* UNIX_FDS 0: with the message "hi", with "hi" and a byte, with a byte
    \* first, and with no body
    \cup {Patch(Patch(Patch(f, 1, <<SD_BUS_MESSAGE_TYPE.METHOD_ERROR>>),
                       16, <<SD_BUS_MESSAGE_HEADER.ERROR_NAME, 1,
                             SD_BUS_TYPE.STRING, 0, 3, 0, 0, 0,
                             97, 46, 98, 0, 0, 0, 0, 0>>),
                 32, <<SD_BUS_MESSAGE_HEADER.REPLY_SERIAL, 1,
                       SD_BUS_TYPE.UINT32, 0, 1, 0, 0, 0,
                       SD_BUS_MESSAGE_HEADER.UNIX_FDS, 1,
                       SD_BUS_TYPE.UINT32, 0, 0, 0, 0, 0>>)
          : f \in {Forged(<<115>>, <<2, 0, 0, 0, 104, 105, 0>>),
                   Forged(<<115, 121>>, <<2, 0, 0, 0, 104, 105, 0, 7>>),
                   Forged(<<121, 115>>,
                          <<7, 0, 0, 0, 2, 0, 0, 0, 104, 105, 0>>)}}
    \cup {p[1] : p \in EndianPairs} \cup {p[2] : p \in EndianPairs}

\* what the stack holds after the unterminated local copy of an array's
\* element signature in message_skip_fields: a NUL, or "y"
Pasts == {<<>>, <<SD_BUS_TYPE.BYTE>>}

Receive ==
    /\ Alive /\ m.id = 0
    /\ \E buffer \in Buffers, al \in Allocs({"message"}), past \in Pasts :
          \E x \in {bus_message_from_malloc(1, buffer, al, past)} :
             /\ m' = IF x.r < 0 THEN m ELSE x.m
             /\ last' = Call("from_malloc", x.r, m')

NextReceived ==
    \/ Receive
    \/ PeekType
    \/ ReadBasic
    \/ EnterContainer
    \/ ExitContainer
    \/ Rewind
    \/ NewMethodReturn
    \/ NewMethodError
    \/ SetDestination

SpecReceived == Init /\ [][NextReceived]_vars

(***************************************************************************)
(* Properties of the codec, each stated for the message the caller holds.  *)
(***************************************************************************)
\* allocation outcomes in which no allocation fails
NoneFails == Allocs({}) \cup AllocsInPlace

\* the values of a basic type the properties quantify over
AnyValues(type) ==
    Values(type) \cup
    (CASE type = SD_BUS_TYPE.BYTE -> {<<0>>, <<255>>}
       [] type = SD_BUS_TYPE.BOOLEAN -> {<<0, 0, 0, 0>>, <<1, 0, 0, 0>>}
       [] type \in {SD_BUS_TYPE.STRING, SD_BUS_TYPE.SIGNATURE} -> {<<>>}
       [] OTHER -> {})

\* a and b agree in message type, header fields, root signature and body
SameMessage(a, b) ==
    /\ a.header.type = b.header.type
    /\ FieldStr(a, a.path) = FieldStr(b, b.path)
    /\ FieldStr(a, a.interface) = FieldStr(b, b.interface)
    /\ FieldStr(a, a.member) = FieldStr(b, b.member)
    /\ FieldStr(a, a.destination) = FieldStr(b, b.destination)
    /\ FieldStr(a, a.sender) = FieldStr(b, b.sender)
    /\ FieldStr(a, a.error_name) = FieldStr(b, b.error_name)
    /\ a.reply_serial = b.reply_serial
    /\ a.root_container.signature = b.root_container.signature
    /\ Slice(a.body_mem, 0, BUS_MESSAGE_BODY_SIZE(a)) =
       Slice(b.body_mem, 0, BUS_MESSAGE_BODY_SIZE(b))

\* parsing the blob of msg succeeds and yields a message equal to msg
RoundTrip(msg) ==
    \A al \in NoneFails :
       \A b \in {bus_message_get_blob(msg, al)} :
          /\ b.r = 0
          /\ \A x \in {bus_message_from_malloc(msg.id + 1, b.buffer, al, <<>>)} :
                x.r = 0 /\ SameMessage(msg, x.m)

\* C1: whenever seal has just succeeded on a message made by the constructors
\* and writers, parsing the message's blob succeeds and yields a message with
\* the same type, header fields, reply serial, root signature and body bytes
C1_RoundTrip ==
    (last.op = "seal" /\ last.r = 0) => RoundTrip(m)

\* what read_basic stores for a value appended from the image or string p
Stored(type, p) ==
    IF type = SD_BUS_TYPE.BOOLEAN
    THEN IF RD32(p, 0) # 0 THEN U32(1) ELSE U32(0)
    ELSE p

\* msg with its read cursor where the write cursor of w stands
ReaderAt(msg, w) ==
    [msg EXCEPT !.rindex = BUS_MESSAGE_BODY_SIZE(w),
                !.root_container.index = Len(w.root_container.signature)]

\* append_basic(type, p) on w, seal, and read_basic(type) at the place of the
\* appended value: the read returns 1 and stores the value
ReadsBack(w, type, p, al) ==
    \A a \in {sd_bus_message_append_basic(w, type, p, al)} :
       /\ a.r = 0
       /\ \A s \in {bus_message_seal(a.m, <<1, 0, 0, 0, 0, 0, 0, 0>>, al)} :
             /\ s.r = 0
             /\ \A x \in {sd_bus_message_read_basic(ReaderAt(s.m, w), type)} :
                   ~x.abort /\ x.r = 1 /\ x.out = Stored(type, p)

\* C2: on an unsealed message with no open container, for every basic type
\* and value, append_basic followed by seal and read_basic of that type at
\* the same position returns 1 and yields the value (BOOLEAN: 1 or 0)
C2_AppendThenRead ==
    (m.id # 0 /\ ~m.sealed /\ n_containers(m) = 0) =>
       \A type \in BasicTypes : \A p \in AnyValues(type) : \A al \in NoneFails :
          ReadsBack(m, type, p, al)

Constructors ==
    {"new_signal", "new_method_call", "new_method_return", "new_method_error"}

\* C4: the sealed flag is monotonic.  In every step a sealed message that
\* stays the message held stays sealed; a message comes to be held sealed only
\* by a successful seal of the message already held or by a successful
\* from_malloc; and a message a constructor has just made is unsealed
C4_SealedMonotonic ==
    [][ /\ (m.id # 0 /\ m.sealed /\ m'.id = m.id) => m'.sealed
        /\ (m'.id # 0 /\ m'.sealed /\ ~(m.id = m'.id /\ m.sealed)) =>
              \/ last'.op = "seal" /\ last'.r >= 0 /\ m'.id = m.id
              \/ last'.op = "from_malloc" /\ last'.r >= 0
        /\ (last'.op \in Constructors /\ last'.r >= 0) =>
              m'.id # 0 /\ ~m'.sealed
      ]_vars

\* a sealed message on which a later call has read a value
C4_Witness ==
    m.id # 0 /\ m.sealed /\ last.op = "read_basic" /\ last.r = 1

\* allocation outcomes of a writer call, failures included
WriterAllocs == Allocs({"body", "strdup", "field1"}) \cup AllocsInPlace

\* b has the fields region, body region, root signature, serial, flags and
\* container stack of a
Unwritten(a, b) ==
    /\ b.fields = a.fields /\ b.fields_mem = a.fields_mem
    /\ b.header.fields_size = a.header.fields_size
    /\ b.body = a.body /\ b.body_mem = a.body_mem
    /\ b.header.body_size = a.header.body_size
    /\ b.root_container.signature = a.root_container.signature
    /\ b.header.serial = a.header.serial
    /\ b.header.flags = a.header.flags
    /\ b.containers = a.containers
    /\ b.sealed = a.sealed

\* the call that returned x failed and wrote nothing to msg
Refused(msg, x) == x.r < 0 /\ Unwritten(msg, x.m)

\* C5: on a sealed message append_basic, open_container, close_container,
\* append, set_destination, set_no_reply and seal each fail with an error
\* return and leave the fields region, body region, root signature, serial,
\* flags and container stack as they were
C5_SealedRefusesWriters ==
    (m.id # 0 /\ m.sealed) =>
       \A al \in NoneFails :
          /\ \A type \in BasicTypes \cup {SD_BUS_TYPE.ARRAY} :
                \A p \in (IF type \in BasicTypes THEN AnyValues(type)
                          ELSE {<<>>}) :
                   Refused(m, sd_bus_message_append_basic(m, type, p, al))
          /\ \A c \in Containers :
                Refused(m, sd_bus_message_open_container(m, c[1], c[2], al))
          /\ Refused(m, sd_bus_message_close_container(m))
          /\ \A c \in AppendCalls :
                Refused(m, sd_bus_message_append(m, c[1], c[2], al))
          /\ \A destination \in {Name, NULLSTR} :
                Refused(m, sd_bus_message_set_destination(m, destination, al))
          /\ \A b \in {0, 1} : Refused(m, sd_bus_message_set_no_reply(m, b))
          /\ \A serial \in Serials : Refused(m, bus_message_seal(m, serial, al))

\* a sealed method call on which set_no_reply has just been refused
C5_Witness ==
    /\ m.id # 0 /\ m.sealed
    /\ m.header.type = SD_BUS_MESSAGE_TYPE.METHOD_CALL
    /\ last.op = "set_no_reply" /\ last.r = -Errno.EPERM

\* the reader call that returned x failed and moved neither the read cursor
\* nor the container stack of msg
Unread(msg, x) ==
    /\ x.r < 0
    /\ x.m.rindex = msg.rindex
    /\ x.m.containers = msg.containers
    /\ x.m.root_container = msg.root_container

\* C6: on an unsealed message peek_type, read_basic, read, enter_container,
\* exit_container and rewind each fail with an error return and change
\* neither the read cursor nor the container stack
C6_UnsealedRefusesReaders ==
    (m.id # 0 /\ ~m.sealed) =>
       \A al \in Allocs({"containers", "strndup"}) \cup AllocsInPlace :
          /\ \A want_contents \in BOOLEAN :
                Unread(m, sd_bus_message_peek_type(m, want_contents, al))
          /\ \A type \in BasicTypes \cup {SD_BUS_TYPE.ARRAY} :
                \A x \in {sd_bus_message_read_basic(m, type)} :
                   ~x.abort /\ Unread(m, x)
          /\ \A c \in ReadCalls :
                Unread(m, sd_bus_message_read(m, c[1], c[2], al))
          /\ \A c \in Containers :
                Unread(m, sd_bus_message_enter_container(m, c[1], c[2], al))
          /\ Unread(m, sd_bus_message_exit_container(m))
          /\ \A complete \in BOOLEAN :
                Unread(m, sd_bus_message_rewind(m, complete))

\* an unsealed message with a value in its body on which rewind has just been
\* refused
C6_Witness ==
    /\ m.id # 0 /\ ~m.sealed /\ BUS_MESSAGE_BODY_SIZE(m) > 0
    /\ last.op = "rewind" /\ last.r = -Errno.EPERM

\* C7: seal on an unsealed message with an open container fails and leaves
\* the message unsealed with its fields region, serial and container stack
\* as they were; so a message that seal has just sealed has no open container
C7_SealNeedsClosedContainers ==
    /\ (m.id # 0 /\ ~m.sealed /\ n_containers(m) > 0) =>
          \A serial \in Serials : \A al \in WriterAllocs :
             \A x \in {bus_message_seal(m, serial, al)} :
                /\ x.r < 0 /\ ~x.m.sealed
                /\ x.m.fields = m.fields /\ x.m.fields_mem = m.fields_mem
                /\ x.m.header.fields_size = m.header.fields_size
                /\ x.m.header.serial = m.header.serial
                /\ x.m.containers = m.containers
    /\ (last.op = "seal" /\ last.r >= 0) => n_containers(m) = 0

\* seal has just been refused on a message with an open container
C7_Witness ==
    /\ m.id # 0 /\ ~m.sealed /\ n_containers(m) > 0
    /\ last.op = "seal" /\ last.r = -Errno.EBADMSG

\* C8: every sealed message has a nonzero serial, be it sealed by seal or
\* returned by from_malloc
C8_SealedSerialNonzero ==
    (m.id # 0 /\ m.sealed) => BUS_MESSAGE_SERIAL(m) # 0

\* the call that returned x failed with errno e and left the container stack
\* of msg as it was
NotPushed(msg, x, e) == x.r = -e /\ x.m.containers = msg.containers

\* C9: the container stack never holds more than BUS_CONTAINER_DEPTH frames:
\* with BUS_CONTAINER_DEPTH containers open, open_container on an unsealed
\* message fails with invalid-argument and enter_container on a sealed one
\* with malformed-message, neither pushing a frame
C9_DepthBounded ==
    /\ n_containers(m) <= BUS_CONTAINER_DEPTH
    /\ n_containers(m) = BUS_CONTAINER_DEPTH =>
          \A contents \in DepthContents : \A al \in NoneFails :
             IF m.sealed
             THEN NotPushed(m, sd_bus_message_enter_container(
                                  m, SD_BUS_TYPE.VARIANT, contents, al),
                            Errno.EBADMSG)
             ELSE NotPushed(m, sd_bus_message_open_container(
                                  m, SD_BUS_TYPE.VARIANT, contents, al),
                            Errno.EINVAL)

\* the well-formed struct contents the property quantifies over: "y", "ys"
StructContents ==
    {<<SD_BUS_TYPE.BYTE>>, <<SD_BUS_TYPE.BYTE, SD_BUS_TYPE.STRING>>}

\* open_container(STRUCT, contents) on w succeeds: the body is aligned to 8
\* bytes, the root signature gains "(" contents ")", one frame is pushed
StructOpened(w, contents, al) ==
    \A x \in {sd_bus_message_open_container(w, SD_BUS_TYPE.STRUCT, contents,
                                            al)} :
       /\ x.r = 0
       /\ BUS_MESSAGE_BODY_SIZE(x.m) = ALIGN_TO(BUS_MESSAGE_BODY_SIZE(w), 8)
       /\ x.m.root_container.signature =
             w.root_container.signature \o <<SD_BUS_TYPE.STRUCT_BEGIN>> \o
             contents \o <<SD_BUS_TYPE.STRUCT_END>>
       /\ n_containers(x.m) = n_containers(w) + 1

\* C10: on an unsealed message with no open container, whatever the size of
\* its body, an empty body included, opening a STRUCT with a well-formed
\* contents signature succeeds when no allocation fails
C10_OpenStruct ==
    (m.id # 0 /\ ~m.sealed /\ n_containers(m) = 0) =>
       \A contents \in StructContents : \A al \in NoneFails :
          StructOpened(m, contents, al)

\* the bytes of mem at the offsets lo..hi-1 are all zero
ZeroBetween(mem, lo, hi) == \A i \in (lo + 1)..hi : mem[i] = 0

\* the offset inside a value of basic type at which its payload is stored:
\* behind the u32 length of a string, behind the length byte of a signature
PayloadAt(type) ==
    IF type \in {SD_BUS_TYPE.STRING, SD_BUS_TYPE.OBJECT_PATH} THEN 4
    ELSE IF type = SD_BUS_TYPE.SIGNATURE THEN 1 ELSE 0

\* x is the result of appending a value of alignment a to w, o the offset at
\* which the value starts: o is a multiple of a, less than a bytes of padding
\* precede it, and the padding is zero
Aligned(w, x, o, a) ==
    /\ o % a = 0
    /\ BUS_MESSAGE_BODY_SIZE(w) <= o /\ o < BUS_MESSAGE_BODY_SIZE(w) + a
    /\ o <= BUS_MESSAGE_BODY_SIZE(x.m)
    /\ ZeroBetween(x.m.body_mem, BUS_MESSAGE_BODY_SIZE(w), o)

\* append_basic on w: where it succeeds the value is aligned
BasicAligned(w, type, p, al) ==
    \A x \in {message_append_basic(w, type, p, al)} :
       x.r = 0 =>
          Aligned(w, x, x.stored - x.m.body - PayloadAt(type),
                  bus_type_get_alignment(type))

\* open_container of a STRUCT or DICT_ENTRY on w: where it succeeds the
\* contents, which start at the end of the body, are aligned to 8
ContentsAligned(w, type, contents, al) ==
    \A x \in {sd_bus_message_open_container(w, type, contents, al)} :
       x.r = 0 => Aligned(w, x, BUS_MESSAGE_BODY_SIZE(x.m), 8)

\* C11: whatever the writer has built so far, the next basic value it appends
\* starts at a multiple of its type's alignment, the contents of the next
\* STRUCT or DICT_ENTRY it opens start at a multiple of 8, and the padding
\* bytes in front of either are zero; so this holds of every value of a
\* message when it is sealed
C11_Alignment ==
    (m.id # 0 /\ ~m.sealed) =>
       \A al \in NoneFails :
          /\ \A type \in BasicTypes : \A p \in AnyValues(type) :
                BasicAligned(m, type, p, al)
          /\ ContentsAligned(m, SD_BUS_TYPE.STRUCT, <<SD_BUS_TYPE.BYTE>>, al)
          /\ ContentsAligned(m, SD_BUS_TYPE.DICT_ENTRY,
                             <<SD_BUS_TYPE.BYTE, SD_BUS_TYPE.BYTE>>, al)

\* a sealed message "yu" whose uint32 follows three bytes of padding
C11_Witness ==
    /\ m.id # 0 /\ m.sealed /\ last.op = "seal"
    /\ m.root_container.signature = <<SD_BUS_TYPE.BYTE, SD_BUS_TYPE.UINT32>>
    /\ Slice(m.body_mem, 0, 8) = <<7, 0, 0, 0, 1, 2, 3, 4>>

\* the body offset at which the first element of the array of frame c starts:
\* behind the u32 length, aligned for the element type
FirstElement(msg, c) ==
    ALIGN_TO(c.array_size - msg.body + 4,
             bus_type_get_alignment(CharAt(c.signature, 0)))

\* the u32 length of the array of frame c is the number of body bytes from
\* its first element to the end of the body
LengthExact(msg, c) ==
    RD32(msg.body_mem, c.array_size - msg.body) =
       BUS_MESSAGE_BODY_SIZE(msg) - FirstElement(msg, c)

\* C12: when the writer closes an array, at whatever depth, the array's u32
\* length is exactly the number of body bytes between the aligned start of
\* its first element and the end of the body, nested containers included
C12_ArrayLength ==
    (m.id # 0 /\ ~m.sealed /\ n_containers(m) > 0) =>
       \A c \in {message_get_container(m)} :
          (c.enclosing = SD_BUS_TYPE.ARRAY /\
           sd_bus_message_close_container(m).r = 0) => LengthExact(m, c)

\* the length prefix of the array of frame c, in the byte order of msg
LengthPrefix(msg, c) ==
    IF msg.header.endian = SD_BUS_NATIVE_ENDIAN
    THEN RD32(msg.body_mem, c.array_size - msg.body)
    ELSE bswap_32(RD32(msg.body_mem, c.array_size - msg.body))

\* x is the result of exit_container on msg, whose innermost frame is c
ExitedArray(msg, c, x) ==
    IF c.begin + LengthPrefix(msg, c) = msg.rindex
    THEN /\ x.r = 1
         /\ x.m.containers = SubSeq(msg.containers, 1, n_containers(msg) - 1)
         /\ x.m.rindex = msg.rindex
    ELSE /\ x.r < 0
         /\ x.m.containers = msg.containers
         /\ x.m.rindex = msg.rindex

\* C13: on a sealed message whose innermost frame is an ARRAY, exit_container
\* succeeds and pops the frame if begin + length = rindex, and otherwise fails
\* leaving the frame, the stack depth and rindex as they were
C13_ExitArray ==
    (m.id # 0 /\ m.sealed /\ n_containers(m) > 0) =>
       \A c \in {message_get_container(m)} :
          c.enclosing = SD_BUS_TYPE.ARRAY =>
             ExitedArray(m, c, sd_bus_message_exit_container(m))

\* exit_container has just been refused inside an array that holds elements
\* the reader has not read
C13_Witness ==
    /\ m.id # 0 /\ m.sealed /\ n_containers(m) > 0
    /\ message_get_container(m).enclosing = SD_BUS_TYPE.ARRAY
    /\ LengthPrefix(m, message_get_container(m)) > 0
    /\ last.op = "exit_container" /\ last.r = -Errno.EBUSY

\* C14: no sealed message built by the writer holds an array whose length
\* prefix exceeds BUS_ARRAY_MAX_SIZE
C14_ArrayCeiling ==
    m.sealed => \A i \in DOMAIN m.prefixes : m.prefixes[i] <= BUS_ARRAY_MAX_SIZE

\* the uint32_t at offset off of the body, in the host's byte order
HostU32(msg, off) ==
    IF msg.header.endian = SD_BUS_NATIVE_ENDIAN
    THEN RD32(msg.body_mem, off)
    ELSE bswap_32(RD32(msg.body_mem, off))

\* the reader of msg stands before an array of bytes whose length prefix is
\* above BUS_ARRAY_MAX_SIZE
AtOversized(msg) ==
    /\ msg.id # 0 /\ msg.sealed
    /\ startswith(message_get_container(msg).signature,
                  message_get_container(msg).index,
                  <<SD_BUS_TYPE.ARRAY, SD_BUS_TYPE.BYTE>>)
    /\ ALIGN_TO(msg.rindex, 4) + 4 <= BUS_MESSAGE_BODY_SIZE(msg)
    /\ HostU32(msg, ALIGN_TO(msg.rindex, 4)) > BUS_ARRAY_MAX_SIZE

\* C15: on a received message, enter_container(ARRAY, contents) before an
\* array whose length prefix, in the host's byte order, is above 64 MiB
\* returns -EBADMSG, pushes no frame and advances neither rindex nor the
\* index into the signature
C15_EnterOversized ==
    AtOversized(m) =>
       \A al \in NoneFails :
          \A x \in {sd_bus_message_enter_container(
                       m, SD_BUS_TYPE.ARRAY, <<SD_BUS_TYPE.BYTE>>, al)} :
             /\ x.r = -Errno.EBADMSG
             /\ n_containers(x.m) = n_containers(m)
             /\ x.m.rindex = m.rindex
             /\ message_get_container(x.m).index = message_get_container(m).index

\* the reader has just been refused the oversized array of a message in the
\* other byte order
C15_Witness ==
    /\ AtOversized(m)
    /\ m.header.endian = SD_BUS_REVERSE_ENDIAN
    /\ last.op = "enter_container" /\ last.r = -Errno.EBADMSG

\* the uint32_t at offset off of a buffer whose first byte is the endian marker
BufferU32(buffer, off) ==
    IF buffer[1] = SD_BUS_NATIVE_ENDIAN THEN RD32(buffer, off)
    ELSE bswap_32(RD32(buffer, off))

\* one of the conditions under which a buffer is malformed
Malformed(buffer) ==
    \/ Len(buffer) < 16
    \/ buffer[4] # 1
    \/ RD32(buffer, 8) = 0
    \/ buffer[2] \notin 1..4
    \/ buffer[1] \notin {SD_BUS_NATIVE_ENDIAN, SD_BUS_REVERSE_ENDIAN}
    \/ Len(buffer) # 16 + ALIGN_TO(BufferU32(buffer, 12), 8) + BufferU32(buffer, 4)

\* C16: from_buffer returns -EBADMSG and no message for every buffer that is
\* shorter than 16 bytes, or whose version is not 1, whose serial is 0, whose
\* type is outside 1..4, whose endian marker is neither 'l' nor 'B', or whose
\* length is not 16 + align_up(fields_size, 8) + body_size
C16_FromBufferRejects ==
    m.id = 0 =>
       \A buffer \in Buffers, al \in NoneFails :
          Malformed(buffer) =>
             \A x \in {bus_message_from_malloc(1, buffer, al, <<>>)} :
                x.r = -Errno.EBADMSG /\ x.m.id = 0

\* the header fields the type of msg requires are present
Required(msg) ==
    CASE msg.header.type = SD_BUS_MESSAGE_TYPE.SIGNAL ->
            msg.path # 0 /\ msg.interface # 0 /\ msg.member # 0
      [] msg.header.type = SD_BUS_MESSAGE_TYPE.METHOD_CALL ->
            msg.path # 0 /\ msg.member # 0
      [] msg.header.type = SD_BUS_MESSAGE_TYPE.METHOD_RETURN ->
            msg.reply_serial # 0
      [] msg.header.type = SD_BUS_MESSAGE_TYPE.METHOD_ERROR ->
            msg.reply_serial # 0 /\ msg.error_name # 0
      [] OTHER -> TRUE

\* C17: every sealed message, built and sealed or returned by from_buffer,
\* has the header fields its type requires: SIGNAL path, interface and
\* member; METHOD_CALL path and member; METHOD_RETURN a nonzero reply_serial;
\* METHOD_ERROR a nonzero reply_serial and an error name
C17_RequiredFields ==
    (m.id # 0 /\ m.sealed) => Required(m)

\* C18: in every sealed message, built and sealed or accepted by from_buffer,
\* the body is empty if and only if the root signature is empty
C18_BodyAndSignature ==
    (m.id # 0 /\ m.sealed) =>
       (BUS_MESSAGE_BODY_SIZE(m) = 0 <=> m.root_container.signature = <<>>)

\* x is the result of a reply constructor called with call
ReplyTo(call, x) ==
    x.r = 0 =>
       /\ sd_bus_message_get_destination(x.m) = sd_bus_message_get_sender(call)
       /\ sd_bus_message_get_sender(x.m) = NULLSTR
       /\ sd_bus_message_get_reply_serial(x.m) =
             [r |-> 0, serial |-> BUS_MESSAGE_SERIAL(call)]

\* C19: a reply made by new_method_return or new_method_error from a sealed
\* METHOD_CALL has the call's sender as its destination (absent iff the call
\* has no sender), no sender of its own, and the call's serial as its
\* reply_serial
C19_ReplyAddressed ==
    (/\ m.id # 0 /\ m.sealed
     /\ m.header.type = SD_BUS_MESSAGE_TYPE.METHOD_CALL
     /\ BUS_MESSAGE_SERIAL(m) # 0) =>
       \A al \in NoneFails :
          /\ ReplyTo(m, sd_bus_message_new_method_return(m.id + 1, m, al))
          /\ ReplyTo(m, sd_bus_message_new_method_error(
                           m.id + 1, m,
                           [name |-> Name, message |-> <<110, 111>>], al))

\* the offset past the value of the header field at offset off of mem, whose
\* signature is the single type mem[off + 3]
FieldEnd(mem, off) ==
    IF mem[off + 3] \in {SD_BUS_TYPE.STRING, SD_BUS_TYPE.OBJECT_PATH}
    THEN off + 8 + RD32(mem, off + 4) + 1
    ELSE IF mem[off + 3] = SD_BUS_TYPE.SIGNATURE
    THEN off + 5 + mem[off + 5] + 1
    ELSE off + 8

\* how many header fields of the given code the first size bytes of mem hold
\* from offset off on
RECURSIVE FieldCount(_, _, _, _)
FieldCount(mem, size, off, code) ==
    IF off >= size THEN 0
    ELSE (IF mem[off + 1] = code THEN 1 ELSE 0)
         + FieldCount(mem, size, ALIGN_TO(FieldEnd(mem, off), 8), code)

Destinations(msg) ==
    FieldCount(msg.fields_mem, msg.header.fields_size, 0,
               SD_BUS_MESSAGE_HEADER.DESTINATION)

\* C20: set_destination on an unsealed message that already holds a
\* DESTINATION header field (from new_method_call, from a reply constructor
\* copying the call's sender, or from an earlier set_destination) returns
\* -EEXIST and appends nothing; hence the fields never hold more than one
\* DESTINATION header field
C20_OneDestination ==
    (m.id # 0 /\ ~m.sealed) =>
       /\ Destinations(m) <= 1
       /\ Destinations(m) = 1 =>
             \A al \in NoneFails :
                \A x \in {sd_bus_message_set_destination(m, Name, al)} :
                   /\ x.r = -Errno.EEXIST
                   /\ x.m.fields_mem = m.fields_mem
                   /\ x.m.header.fields_size = m.header.fields_size

\* the offset of the first header field of the given code in the first size
\* bytes of mem from offset off on, -1 if there is none
RECURSIVE FieldOffset(_, _, _, _)
FieldOffset(mem, size, off, code) ==
    IF off >= size THEN -1
    ELSE IF mem[off + 1] = code THEN off
    ELSE FieldOffset(mem, size, ALIGN_TO(FieldEnd(mem, off), 8), code)

\* the SIGNATURE header field of msg: its signature "g", its value and the
\* closing NUL; <<>> if msg has none
SignatureField(msg) ==
    The({ IF o < 0 THEN <<>>
          ELSE IF Slice(msg.fields_mem, o + 1, 3) # <<1, SD_BUS_TYPE.SIGNATURE, 0>>
               \/ msg.fields_mem[o + 5 + msg.fields_mem[o + 5] + 1] # 0
          THEN <<-1>>
          ELSE Slice(msg.fields_mem, o + 5, msg.fields_mem[o + 5])
        : o \in {FieldOffset(msg.fields_mem, msg.header.fields_size, 0,
                             SD_BUS_MESSAGE_HEADER.SIGNATURE)} })

\* the complete type of a container of the given kind and contents
CompleteType(type, contents) ==
    CASE type = SD_BUS_TYPE.ARRAY -> <<SD_BUS_TYPE.ARRAY>> \o contents
      [] type = SD_BUS_TYPE.VARIANT -> <<SD_BUS_TYPE.VARIANT>>
      [] type = SD_BUS_TYPE.STRUCT ->
            <<SD_BUS_TYPE.STRUCT_BEGIN>> \o contents \o <<SD_BUS_TYPE.STRUCT_END>>
      [] OTHER ->
            <<SD_BUS_TYPE.DICT_ENTRY_BEGIN>> \o contents
               \o <<SD_BUS_TYPE.DICT_ENTRY_END>>

\* x is the result of appending a value of the complete type t to w: at the
\* top level the root signature grows by t, inside a container and on
\* failure it stays
Extends(w, x, t) ==
    x.m.root_container.signature =
       IF x.r = 0 /\ n_containers(w) = 0
       THEN w.root_container.signature \o t
       ELSE w.root_container.signature

\* s is the result of seal on w: the SIGNATURE header field holds the root
\* signature, and there is one iff the root signature is not empty
SignatureSealed(w, s) ==
    s.r = 0 =>
       /\ s.m.root_container.signature = w.root_container.signature
       /\ SignatureField(s.m) = w.root_container.signature
       /\ FieldCount(s.m.fields_mem, s.m.header.fields_size, 0,
                     SD_BUS_MESSAGE_HEADER.SIGNATURE)
             = IF w.root_container.signature = <<>> THEN 0 ELSE 1

\* C21: every append of a basic value and every open_container extends the
\* root signature by the value's complete type when it succeeds at the top
\* level and leaves it alone inside a container or on failure; a message not
\* yet sealed has no SIGNATURE header field, and seal writes one holding the
\* root signature if and only if the root signature is not empty
C21_RootSignature ==
    (m.id # 0 /\ ~m.sealed) =>
       /\ SignatureField(m) = <<>>
       /\ \A al \in WriterAllocs :
             /\ \A type \in BasicTypes : \A p \in AnyValues(type) :
                   Extends(m, sd_bus_message_append_basic(m, type, p, al),
                           <<type>>)
             /\ \A c \in Containers :
                   Extends(m, sd_bus_message_open_container(m, c[1], c[2], al),
                           CompleteType(c[1], c[2]))
             /\ SignatureSealed(m, bus_message_seal(
                                      m, <<1, 0, 0, 0, 0, 0, 0, 0>>, al))

\* a message holding an array of two bytes has just been sealed with the
\* SIGNATURE header field "ay"
C21_Witness ==
    /\ m.id # 0 /\ m.sealed /\ last.op = "seal" /\ last.r = 0
    /\ BUS_MESSAGE_BODY_SIZE(m) = 6
    /\ SignatureField(m) = <<SD_BUS_TYPE.ARRAY, SD_BUS_TYPE.BYTE>>

\* msg was built by a constructor and sealed
Built(msg) ==
    msg.id # 0 /\ msg.sealed /\ msg.iovec # <<>> /\ msg.iovec[1].what = "header"

\* the serialization of msg: header, fields, zero padding to 8, body
Layout(msg) ==
    HeaderBytes(msg.header)
       \o Slice(msg.fields_mem, 0, msg.header.fields_size)
       \o [k \in 1..(ALIGN_TO(msg.header.fields_size, 8)
                        - msg.header.fields_size) |-> 0]
       \o Slice(msg.body_mem, 0, msg.header.body_size)

\* C22: the blob of a sealed built message is header (16 bytes), fields
\* region (fields_size bytes), zero padding to an 8-byte boundary, body
\* (body_size bytes); its length is 16 + align_up(fields_size, 8) + body_size,
\* which is the length from_buffer computes from the blob's header
C22_BlobLayout ==
    Built(m) =>
       \A al \in NoneFails :
          \A b \in {bus_message_get_blob(m, al)} :
             /\ b.r = 0
             /\ b.buffer = Layout(m)
             /\ Len(b.buffer) = 16 + ALIGN_TO(m.header.fields_size, 8)
                                   + m.header.body_size
             /\ Len(b.buffer) = 16 + ALIGN_TO(BufferU32(b.buffer, 12), 8)
                                   + BufferU32(b.buffer, 4)

\* a message whose fields end off an 8-byte boundary and whose body is not
\* empty has just been sealed
C22_Witness ==
    /\ Built(m) /\ last.op = "seal" /\ last.r = 0
    /\ m.header.fields_size % 8 # 0
    /\ m.header.body_size > 0

\* the signature parse_fields expects of the header field of a known code
Expected(code) ==
    CASE code = SD_BUS_MESSAGE_HEADER.PATH -> SD_BUS_TYPE.OBJECT_PATH
      [] code = SD_BUS_MESSAGE_HEADER.SIGNATURE -> SD_BUS_TYPE.SIGNATURE
      [] code \in {SD_BUS_MESSAGE_HEADER.REPLY_SERIAL,
                   SD_BUS_MESSAGE_HEADER.UNIX_FDS} -> SD_BUS_TYPE.UINT32
      [] OTHER -> SD_BUS_TYPE.STRING

\* the header field at offset off of mem has the code 0, or a known code and
\* another signature than expected, or is a REPLY_SERIAL of 0
BadField(mem, off) ==
    \/ mem[off + 1] = 0
    \/ /\ mem[off + 1] \in 1..9
       /\ Slice(mem, off + 1, 3) # <<1, Expected(mem[off + 1]), 0>>
    \/ /\ mem[off + 1] = SD_BUS_MESSAGE_HEADER.REPLY_SERIAL
       /\ Slice(mem, off + 1, 7) = <<1, SD_BUS_TYPE.UINT32, 0, 0, 0, 0, 0>>

\* some header field of the first size bytes of mem, from offset off on, is
\* bad; the walk goes through fields of one-letter signatures
RECURSIVE AnyBadField(_, _, _)
AnyBadField(mem, size, off) ==
    /\ off < size
    /\ \/ BadField(mem, off)
       \/ /\ mem[off + 2] = 1
          /\ AnyBadField(mem, size, ALIGN_TO(FieldEnd(mem, off), 8))

\* a little-endian buffer with a sound header
Sound(buffer) ==
    ~Malformed(buffer) /\ buffer[1] = SD_BUS_NATIVE_ENDIAN

\* C23: from_buffer returns -EBADMSG for every buffer holding a header field
\* of a known code 1..9 whose signature is not the expected one, a
\* REPLY_SERIAL of 0, or a header field of code 0
C23_BadFieldRejected ==
    m.id = 0 =>
       \A buffer \in Buffers, al \in NoneFails, past \in Pasts :
          (Sound(buffer)
             /\ AnyBadField(SubSeq(buffer, 17, Len(buffer)),
                            RD32(buffer, 12), 0)) =>
             bus_message_from_malloc(1, buffer, al, past).r = -Errno.EBADMSG

\* the call of Sent without destination, as from_buffer returns it
Plain ==
    bus_message_from_malloc(1,
        bus_message_get_blob(
            bus_message_seal(
                sd_bus_message_append(
                    sd_bus_message_new_method_call(1, NULLSTR, Path, NULLSTR,
                                                   Member, NoFail).m,
                    <<SD_BUS_TYPE.ARRAY, SD_BUS_TYPE.BYTE>>,
                    <<(<<2>>), <<7>>, <<8>>>>, NoFail).m,
                <<1, 0, 0, 0, 0, 0, 0, 0>>, NoFail).m,
            NoFail).buffer,
        NoFail, <<>>).m

\* the buffer holds a header field of an unknown code where Sent holds
\* DESTINATION
Unknown(buffer) ==
    Sound(buffer) /\ buffer[49] \notin 0..9

\* C24: from_buffer succeeds on every buffer that holds, besides the fields of
\* a call, header fields of unknown codes with well-formed values (a basic
\* value, a string, a variant, an array, a struct), and returns the message
\* it returns for the call without them
C24_UnknownSkipped ==
    m.id = 0 =>
       \A buffer \in Buffers, al \in NoneFails, past \in Pasts :
          Unknown(buffer) =>
             \A x \in {bus_message_from_malloc(1, buffer, al, past)} :
                x.r = 0 /\ SameMessage(x.m, Plain)

\* the padding a read of alignment align skips at the cursor holds a byte that
\* is not 0
BadPadding(align) ==
    \E i \in m.rindex + 1 .. ALIGN_TO(m.rindex, align) :
       i <= Len(m.body_mem) /\ m.body_mem[i] # 0

\* a value of the basic type at the aligned cursor extends beyond the body;
\* a string's bytes are its length, its characters and its NUL
Beyond(type) ==
    LET start == ALIGN_TO(m.rindex, bus_type_get_alignment(type))
        size == BUS_MESSAGE_BODY_SIZE(m)
        image == BswapImage(m, Slice(m.body_mem, start, 4))
    IN  IF type \in {SD_BUS_TYPE.STRING, SD_BUS_TYPE.OBJECT_PATH}
        THEN \/ start + 4 > size
             \/ image[4] >= 64
             \/ start + 4 + RD32(image, 0) + 1 > size
        ELSE IF type = SD_BUS_TYPE.SIGNATURE
        THEN \/ start + 1 > size
             \/ start + 1 + m.body_mem[start + 1] + 1 > size
        ELSE start + bus_type_get_size(type) > size

\* the bytes enter_container reads for the container at the aligned cursor,
\* an array's length or a variant's signature, extend beyond the body
BeyondContainer(type) ==
    LET start == ALIGN_TO(m.rindex, bus_type_get_alignment(type))
        size == BUS_MESSAGE_BODY_SIZE(m)
    IN  IF type = SD_BUS_TYPE.ARRAY THEN start + 4 > size
        ELSE IF type = SD_BUS_TYPE.VARIANT
        THEN \/ start + 1 > size
             \/ start + 1 + m.body_mem[start + 1] + 1 > size
        ELSE start > size

\* C25: on a sealed message, read_basic of the type the signature announces
\* returns -EBADMSG when it skips a padding byte that is not 0 or when the
\* value extends beyond body_size, and enter_container never succeeds then;
\* no read reaches outside the body, and a read that succeeds leaves the
\* cursor inside the body and returns a pointer into it
C25_ReadsInRange ==
    (m.id # 0 /\ m.sealed) =>
       /\ \A type \in BasicTypes \ {SD_BUS_TYPE.UNIX_FD} :
             \A x \in {sd_bus_message_read_basic(m, type)} :
                /\ ~x.oob
                /\ x.r > 0 =>
                      /\ x.m.rindex <= BUS_MESSAGE_BODY_SIZE(m)
                      /\ x.ptr # 0 =>
                            x.ptr + Len(x.out) < m.body + BUS_MESSAGE_BODY_SIZE(m)
                /\ (/\ CharAt(message_get_container(m).signature,
                              message_get_container(m).index) = type
                    /\ ~message_end_of_array(m, m.rindex)
                    /\ \/ BadPadding(bus_type_get_alignment(type))
                       \/ Beyond(type)) =>
                      x.r = -Errno.EBADMSG
       /\ \A c \in Containers :
             \A x \in {sd_bus_message_enter_container(m, c[1], c[2], NoFail)} :
                /\ x.r > 0 => x.m.rindex <= BUS_MESSAGE_BODY_SIZE(m)
                /\ (\/ BadPadding(bus_type_get_alignment(c[1]))
                    \/ BeyondContainer(c[1])) =>
                      x.r \in {-Errno.EBADMSG, -Errno.ENXIO, -Errno.EINVAL, 0}

\* the reader operations of a replay: read_basic of a type, enter_container
\* of a kind and contents, exit_container, peek_type with and without contents
ReadOps ==
    {<<"read_basic", type>> :
        type \in {SD_BUS_TYPE.BYTE, SD_BUS_TYPE.BOOLEAN, SD_BUS_TYPE.STRING}}
    \cup {<<"enter_container", c[1], c[2]>> : c \in Containers}
    \cup {<<"exit_container">>, <<"peek_type", TRUE>>, <<"peek_type", FALSE>>}

\* the message a reader operation leaves and what its caller observes: the
\* return code and the values
Replay(msg, op) ==
    IF op[1] = "read_basic"
    THEN The({ [m |-> x.m, seen |-> <<x.r, x.out>>]
             : x \in {sd_bus_message_read_basic(msg, op[2])} })
    ELSE IF op[1] = "enter_container"
    THEN The({ [m |-> x.m, seen |-> <<x.r>>]
             : x \in {sd_bus_message_enter_container(msg, op[2], op[3], NoFail)} })
    ELSE IF op[1] = "exit_container"
    THEN The({ [m |-> x.m, seen |-> <<x.r>>]
             : x \in {sd_bus_message_exit_container(msg)} })
    ELSE The({ [m |-> x.m, seen |-> <<x.r, x.type, x.contents>>]
             : x \in {sd_bus_message_peek_type(msg, op[2], NoFail)} })

\* what the caller observes of two reader operations in a row
Replay2(msg, op1, op2) ==
    The({ <<x.seen, Replay(x.m, op2).seen>> : x \in {Replay(msg, op1)} })

\* msg with the cursor at the start: no open container, rindex 0, the root
\* signature index 0
Rewound(msg) ==
    [msg EXCEPT !.containers = <<>>, !.rindex = 0, !.root_container.index = 0]

\* C26: on a sealed message rewind(m, true) empties the container stack and
\* sets rindex and the root signature index to 0, changing nothing else; the
\* reader operations change nothing but the cursor and the cached contents of
\* peek_type; and on a message just sealed or just received, any two reader
\* operations return after rewind(m, true) what they return without it
C26_RewindReplays ==
    (m.id # 0 /\ m.sealed) =>
       /\ \A x \in {sd_bus_message_rewind(m, TRUE)} :
             /\ x.m = Rewound(m)
             /\ x.r = (IF m.root_container.signature # <<>> THEN 1 ELSE 0)
       /\ \A op \in ReadOps :
             [Rewound(Replay(m, op).m) EXCEPT !.peeked_signature = NULLSTR]
                = [Rewound(m) EXCEPT !.peeked_signature = NULLSTR]
       /\ (last.op \in {"seal", "from_malloc"} /\ last.r = 0) =>
             \A op1 \in ReadOps, op2 \in ReadOps :
                Replay2(sd_bus_message_rewind(m, TRUE).m, op1, op2)
                   = Replay2(m, op1, op2)

\* the cursor stands at the end of the current container: its signature is
\* exhausted, or it is an array and rindex has reached begin + length
EndOfContainer ==
    LET c == message_get_container(m)
    IN  \/ CharAt(c.signature, c.index) = 0
        \/ /\ c.enclosing = SD_BUS_TYPE.ARRAY
           /\ m.rindex >= c.begin + PeekU32(m, m.body_mem, c.array_size - m.body)

\* the type of the current signature slot
SlotType ==
    LET c == message_get_container(m)
        t == CharAt(c.signature, c.index)
    IN  IF t = SD_BUS_TYPE.STRUCT_BEGIN THEN SD_BUS_TYPE.STRUCT
        ELSE IF t = SD_BUS_TYPE.DICT_ENTRY_BEGIN THEN SD_BUS_TYPE.DICT_ENTRY
        ELSE t

\* the slot is a variant whose signature in the body is cut short or is not
\* a valid signature
BadVariant ==
    /\ SlotType = SD_BUS_TYPE.VARIANT
    /\ \/ m.rindex + 1 > BUS_MESSAGE_BODY_SIZE(m)
       \/ m.rindex + 1 + m.body_mem[m.rindex + 1] + 1 > BUS_MESSAGE_BODY_SIZE(m)
       \/ ~validate_signature(m.body_mem, m.rindex + 1, m.body_mem[m.rindex + 1])

\* peek_type leaves rindex and the frames as they are, returns 0 and the
\* enclosing kind at the end of the container, and 1 and the slot's type
\* elsewhere, save where except holds
PeekTypeReturns(except(_)) ==
    (m.id # 0 /\ m.sealed) =>
       \A want_contents \in BOOLEAN :
          \A x \in {sd_bus_message_peek_type(m, want_contents, NoFail)} :
             /\ x.m.rindex = m.rindex
             /\ x.m.containers = m.containers
             /\ x.m.root_container = m.root_container
             /\ IF EndOfContainer
                THEN x.r = 0 /\ x.type = message_get_container(m).enclosing
                ELSE except(want_contents) \/ (x.r = 1 /\ x.type = SlotType)

\* C27 as stated: peek_type advances nothing, returns 0 with the enclosing
\* kind exactly at the end of the container and 1 with the type of the slot
\* in every other case
C27_PeekTypeAlways == PeekTypeReturns(LAMBDA want_contents : FALSE)

\* C27: peek_type advances nothing, returns 0 with the enclosing kind exactly
\* at the end of the container and otherwise 1 with the type of the slot,
\* unless the caller asks for the contents of a variant whose signature in
\* the body is malformed, where it returns -EBADMSG (allocations succeeding)
C27_PeekType ==
    /\ PeekTypeReturns(LAMBDA want_contents : want_contents /\ BadVariant)
    /\ (m.id # 0 /\ m.sealed /\ ~EndOfContainer /\ BadVariant) =>
          sd_bus_message_peek_type(m, TRUE, NoFail).r = -Errno.EBADMSG

\* inside an array that has been read to its end, where the signature slot
\* still names the element type
C27_Witness ==
    /\ m.id # 0 /\ m.sealed /\ last.op = "read_basic" /\ last.r = 1
    /\ n_containers(m) = 1
    /\ message_get_container(m).enclosing = SD_BUS_TYPE.ARRAY
    /\ EndOfContainer
    /\ sd_bus_message_peek_type(m, TRUE, NoFail).type = SD_BUS_TYPE.ARRAY

\* close_container has nothing to close, or the current frame is not an
\* array's and its signature index is not at the end of its contents
Unfinished ==
    LET c == message_get_container(m)
    IN  \/ n_containers(m) = 0
        \/ c.enclosing # SD_BUS_TYPE.ARRAY /\ c.index # Len(c.signature)

\* C28: on an unsealed message close_container fails and changes nothing when
\* no container is open or the current non-array frame's signature is not
\* consumed to its end; otherwise it returns 0 and pops the top frame alone,
\* leaving the frames below, the body and the root signature as they are
C28_CloseContainer ==
    (m.id # 0 /\ ~m.sealed) =>
       \A x \in {sd_bus_message_close_container(m)} :
          IF Unfinished THEN x.r < 0 /\ x.m = m
          ELSE /\ x.r = 0
               /\ x.m.containers = SubSeq(m.containers, 1, n_containers(m) - 1)
               /\ x.m = [m EXCEPT !.containers = x.m.containers]

\* close_container has just refused to close a struct, variant or dict entry
\* that still misses values
C28_Witness ==
    /\ m.id # 0 /\ ~m.sealed
    /\ last.op = "close_container" /\ last.r = -Errno.EINVAL
    /\ n_containers(m) > 0
    /\ message_get_container(m).enclosing # SD_BUS_TYPE.ARRAY
    /\ Unfinished

\* the contents a caller names for a dict entry: pairs, and a single type
DictContents ==
    {<<SD_BUS_TYPE.BYTE, SD_BUS_TYPE.BYTE>>,
     <<SD_BUS_TYPE.STRING, SD_BUS_TYPE.VARIANT>>, <<SD_BUS_TYPE.BYTE>>}

EndianOps ==
    {<<"read_basic", type>> :
        type \in {SD_BUS_TYPE.BYTE, SD_BUS_TYPE.BOOLEAN, SD_BUS_TYPE.INT16,
                  SD_BUS_TYPE.UINT16, SD_BUS_TYPE.UINT32, SD_BUS_TYPE.UINT64,
                  SD_BUS_TYPE.STRING}}
    \cup {<<"enter_container", SD_BUS_TYPE.ARRAY, <<SD_BUS_TYPE.BYTE>>>>,
          <<"enter_container", SD_BUS_TYPE.ARRAY, <<SD_BUS_TYPE.UINT16>>>>,
          <<"exit_container">>, <<"peek_type", TRUE>>}

\* what the caller observes of three reader operations in a row
Replay3(msg, op1, op2, op3) ==
    The({ <<x.seen>> \o Replay2(x.m, op2, op3) : x \in {Replay(msg, op1)} })

\* what a message tells of its header: serial, reply serial, sizes, the
\* strings of the quick-access fields and the root signature
Told(msg) ==
    <<BUS_MESSAGE_SERIAL(msg), msg.reply_serial, BUS_MESSAGE_BODY_SIZE(msg),
      BUS_MESSAGE_FIELDS_SIZE(msg), msg.header.type,
      FieldStr(msg, msg.path), FieldStr(msg, msg.member),
      FieldStr(msg, msg.destination), msg.root_container.signature>>

\* C30: from_buffer returns the same code for a buffer of the native byte
\* order and for the buffer of the same message in the reverse byte order,
\* the two messages tell the same header values, and any three reader
\* operations in a row return the same codes and values on both
C30_EndianSymmetry ==
    m.id = 0 =>
       \A p \in EndianPairs :
          \A a \in {bus_message_from_malloc(1, p[1], NoFail, <<>>)},
             b \in {bus_message_from_malloc(1, p[2], NoFail, <<>>)} :
             /\ a.r = 0 /\ b.r = 0
             /\ a.m.header.endian = SD_BUS_NATIVE_ENDIAN
             /\ b.m.header.endian = SD_BUS_REVERSE_ENDIAN
             /\ Told(a.m) = Told(b.m)
             /\ \A op1 \in EndianOps, op2 \in EndianOps, op3 \in EndianOps :
                   Replay3(a.m, op1, op2, op3) = Replay3(b.m, op1, op2, op3)

\* an array of a message of the reverse byte order has been entered, read to
\* its end and left
C30_Witness ==
    /\ m.id # 0 /\ m.header.endian = SD_BUS_REVERSE_ENDIAN
    /\ last.op = "exit_container" /\ last.r = 1
    /\ m.rindex = BUS_MESSAGE_BODY_SIZE(m) /\ m.rindex > 4

\* the values a caller hands to append_basic for a type, and for the string
\* types the null pointer
Pointers(type) ==
    Values(type) \cup
    (IF type \in {SD_BUS_TYPE.STRING, SD_BUS_TYPE.OBJECT_PATH,
                  SD_BUS_TYPE.SIGNATURE}
     THEN {NULLSTR} ELSE {})

BadBoolean ==
    LET c == message_get_container(m)
        start == ALIGN_TO(m.rindex, 4)
    IN  /\ CharAt(c.signature, c.index) = SD_BUS_TYPE.BOOLEAN
        /\ ~message_end_of_array(m, m.rindex)
        /\ start + 4 <= BUS_MESSAGE_BODY_SIZE(m)
        /\ BswapImage(m, Slice(m.body_mem, start, 4))
              \notin {<<0, 0, 0, 0>>, <<1, 0, 0, 0>>}

\* C32: on a sealed message read_basic of a BOOLEAN whose wire value is
\* neither 0 nor 1 fails instead of returning a value
C32_BooleanValid ==
    (m.id # 0 /\ m.sealed /\ BadBoolean) =>
       sd_bus_message_read_basic(m, SD_BUS_TYPE.BOOLEAN).r < 0

\* the signature of a container of a kind and contents
ContainerSignature(type, contents) ==
    IF type = SD_BUS_TYPE.ARRAY THEN <<SD_BUS_TYPE.ARRAY>> \o contents
    ELSE IF type = SD_BUS_TYPE.VARIANT THEN <<SD_BUS_TYPE.VARIANT>>
    ELSE IF type = SD_BUS_TYPE.STRUCT
    THEN <<SD_BUS_TYPE.STRUCT_BEGIN>> \o contents \o <<SD_BUS_TYPE.STRUCT_END>>
    ELSE <<SD_BUS_TYPE.DICT_ENTRY_BEGIN>> \o contents
         \o <<SD_BUS_TYPE.DICT_ENTRY_END>>

\* open_container accepts the kind and the contents as arguments
WellFormed(type, contents) ==
    CASE type = SD_BUS_TYPE.ARRAY -> signature_is_single(contents)
      [] type = SD_BUS_TYPE.VARIANT ->
            /\ signature_is_single(contents)
            /\ CharAt(contents, 0) # SD_BUS_TYPE.DICT_ENTRY_BEGIN
      [] type = SD_BUS_TYPE.STRUCT -> signature_is_valid(contents, FALSE)
      [] type = SD_BUS_TYPE.DICT_ENTRY -> signature_is_pair(contents)
      [] OTHER -> FALSE

\* the signatures of the frames, the root's first
FrameSignatures(msg) ==
    <<msg.root_container.signature>>
    \o [i \in 1..n_containers(msg) |-> msg.containers[i].signature]

\* C33: inside an open container of an unsealed message, append_basic of a
\* type other than the one at the frame's signature slot (none, when the
\* signature is exhausted) returns -ENXIO, and open_container of a kind and
\* contents other than what the slot announces fails, with -ENXIO when its
\* arguments are well-formed; both leave the whole message unchanged; and no
\* successful append or open changes the signature of any frame
C33_SignatureMatch ==
    (m.id # 0 /\ ~m.sealed /\ n_containers(m) > 0) =>
       LET c == message_get_container(m)
       IN  /\ \A type \in BasicTypes, al \in NoneFails :
                 \A p \in Values(type) :
                    \A x \in {sd_bus_message_append_basic(m, type, p, al)} :
                       /\ CharAt(c.signature, c.index) # type =>
                             x.r = -Errno.ENXIO /\ x.m = m
                       /\ x.r = 0 => FrameSignatures(x.m) = FrameSignatures(m)
           /\ \A k \in Containers \cup
                       {<<SD_BUS_TYPE.ARRAY, <<SD_BUS_TYPE.STRING>>>>,
                        <<SD_BUS_TYPE.STRUCT, <<SD_BUS_TYPE.BYTE,
                                                SD_BUS_TYPE.BYTE>>>>,
                        <<SD_BUS_TYPE.ARRAY, <<SD_BUS_TYPE.BYTE,
                                               SD_BUS_TYPE.BYTE>>>>},
                 al \in NoneFails :
                 \A x \in {sd_bus_message_open_container(m, k[1], k[2], al)} :
                    /\ ~startswith(c.signature, c.index,
                                   ContainerSignature(k[1], k[2])) =>
                          /\ x.r < 0 /\ x.m = m
                          /\ WellFormed(k[1], k[2]) => x.r = -Errno.ENXIO
                    /\ x.r = 0 =>
                          SubSeq(FrameSignatures(x.m), 1, n_containers(m) + 1)
                             = FrameSignatures(m)

\* an append has just been refused with -ENXIO in a struct, variant or dict
\* entry whose signature is exhausted
C33_Witness ==
    /\ m.id # 0 /\ ~m.sealed /\ n_containers(m) > 0
    /\ last.op = "append_basic" /\ last.r = -Errno.ENXIO
    /\ message_get_container(m).index = Len(message_get_container(m).signature)
    /\ message_get_container(m).index > 0

\* the frame at a depth of the stack, the root being at depth 0
FrameAt(msg, depth) ==
    IF depth = 0 THEN msg.root_container ELSE msg.containers[depth]

\* the index a frame has after a value of a complete type went through it
IndexAfter(c, signature) ==
    IF c.enclosing = SD_BUS_TYPE.ARRAY THEN 0 ELSE c.index + Len(signature)

\* C34: a successful append_basic, open_container, read_basic or
\* enter_container advances the index of the frame it acts in by the length
\* of the signature of the value's complete type, unless the frame is an
\* array's, whose index is 0 before and after
C34_SignatureCursor ==
    m.id # 0 =>
       LET n == n_containers(m)
           c == message_get_container(m)
       IN  /\ c.enclosing = SD_BUS_TYPE.ARRAY => c.index = 0
           /\ ~m.sealed =>
                 /\ \A type \in BasicTypes, al \in NoneFails :
                       \A p \in Values(type) :
                          \A x \in {sd_bus_message_append_basic(m, type, p, al)} :
                             x.r >= 0 =>
                                FrameAt(x.m, n).index = IndexAfter(c, <<type>>)
                 /\ \A k \in Containers, al \in NoneFails :
                       \A x \in {sd_bus_message_open_container(m, k[1], k[2], al)} :
                          x.r >= 0 =>
                             FrameAt(x.m, n).index
                                = IndexAfter(c, ContainerSignature(k[1], k[2]))
           /\ m.sealed =>
                 /\ \A type \in BasicTypes :
                       \A x \in {sd_bus_message_read_basic(m, type)} :
                          x.r > 0 =>
                             FrameAt(x.m, n).index = IndexAfter(c, <<type>>)
                 /\ \A k \in Containers, al \in NoneFails :
                       \A x \in {sd_bus_message_enter_container(m, k[1], k[2], al)} :
                          x.r > 0 =>
                             FrameAt(x.m, n).index
                                = IndexAfter(c, ContainerSignature(k[1], k[2]))

\* an element has just been read from an array, the array's frame still at
\* index 0, after the frame around the array moved past the whole array type
C34_Witness ==
    /\ m.id # 0 /\ m.sealed /\ n_containers(m) > 0
    /\ last.op = "read_basic" /\ last.r > 0
    /\ message_get_container(m).enclosing = SD_BUS_TYPE.ARRAY
    /\ message_get_container(m).index = 0
    /\ FrameAt(m, n_containers(m) - 1).enclosing # SD_BUS_TYPE.ARRAY
    /\ FrameAt(m, n_containers(m) - 1).index >= 2

\* a message without what peek_type keeps for its caller
Unpeeked(msg) == [msg EXCEPT !.peeked_signature = NULLSTR]

\* C35: rewind(complete = false) of a sealed message sets the current
\* frame's index to 0 and rindex to the frame's begin, changes neither the
\* depth of the stack nor any other frame, and returns nonzero iff the
\* frame's signature is not empty; and after a container was entered, any two
\* reader operations that end in the container's frame followed by such a
\* rewind give back the state the frame was entered in, so that every
\* operation replayed from there returns what it returned the first time
C35_RewindFrame ==
    (m.id # 0 /\ m.sealed) =>
       LET n == n_containers(m)
           c == message_get_container(m)
       IN  /\ \A x \in {sd_bus_message_rewind(m, FALSE)} :
                 /\ x.r = (IF c.signature # <<>> THEN 1 ELSE 0)
                 /\ n_containers(x.m) = n
                 /\ \A d \in 0..n - 1 : FrameAt(x.m, d) = FrameAt(m, d)
                 /\ FrameAt(x.m, n) = [c EXCEPT !.index = 0]
                 /\ x.m.rindex = c.begin
                 /\ [x.m EXCEPT !.rindex = 0, !.containers = <<>>,
                                !.root_container = 0]
                       = [m EXCEPT !.rindex = 0, !.containers = <<>>,
                                   !.root_container = 0]
           /\ (last.op = "enter_container" /\ last.r > 0) =>
                 \A op1 \in ReadOps, op2 \in ReadOps :
                    \A y \in {Replay(Replay(m, op1).m, op2)} :
                       n_containers(y.m) = n =>
                          /\ Unpeeked(sd_bus_message_rewind(y.m, FALSE).m)
                                = Unpeeked(m)
                          /\ \A op \in ReadOps :
                                Replay(sd_bus_message_rewind(y.m, FALSE).m,
                                       op).seen
                                   = Replay(m, op).seen

\* a rewind of the frame of an entered container has just gone back over
\* values that were read from it
C35_Witness ==
    /\ m.id # 0 /\ m.sealed /\ n_containers(m) > 0
    /\ last.op = "rewind" /\ last.r = 1 /\ last.changed
    /\ message_get_container(m).index = 0
    /\ m.rindex = message_get_container(m).begin
    /\ m.rindex > 0

\* the quick-access references into the fields region
FieldRefs == {"path", "interface", "member", "destination", "sender",
              "error_name"}

\* every reference set into the fields of a message designates, in the
\* message after an operation, the same offset and the same string
SameFieldRefs(msg, after) ==
    \A f \in FieldRefs :
       msg[f] # 0 =>
          /\ after[f] - after.fields = msg[f] - msg.fields
          /\ FieldStr(after, after[f]) = FieldStr(msg, msg[f])

\* the same for error.message in the body and for the length of every
\* array that was open
SameBodyRefs(msg, after) ==
    /\ msg.error_message # 0 =>
          /\ after.error_message - after.body = msg.error_message - msg.body
          /\ BodyStr(after, after.error_message)
                = BodyStr(msg, msg.error_message)
    /\ \A d \in 1..n_containers(msg) :
          (d <= n_containers(after) /\ msg.containers[d].array_size # 0) =>
             after.containers[d].array_size - after.body
                = msg.containers[d].array_size - msg.body

\* C36: whatever extends the fields of an unsealed message (set_destination,
\* seal, one more field) or its body (append_basic, open_container, padding
\* and bytes), with the region moved by the reallocation or not, every
\* quick-access reference that was set and the length reference of every
\* open array is at the same offset of the region afterwards, the strings
\* referenced being the same
C36_Rebased ==
    (m.id # 0 /\ ~m.sealed) =>
       \A al \in NoneFails :
          /\ \A x \in {sd_bus_message_set_destination(m, <<97, 46, 98>>, al)} :
                SameFieldRefs(m, x.m) /\ SameBodyRefs(m, x.m)
          /\ \A serial \in Serials :
                \A x \in {bus_message_seal(m, serial, al)} :
                   SameFieldRefs(m, x.m) /\ SameBodyRefs(m, x.m)
          /\ \A sz \in {1, 8} :
                \A x \in {message_extend_fields(m, 8, sz, FALSE, al)} :
                   /\ al.move => x.m.fields # m.fields
                   /\ SameFieldRefs(m, x.m)
          /\ \A type \in BasicTypes :
                \A p \in Values(type) :
                   \A x \in {sd_bus_message_append_basic(m, type, p, al)} :
                      SameFieldRefs(m, x.m) /\ SameBodyRefs(m, x.m)
          /\ \A k \in Containers :
                \A x \in {sd_bus_message_open_container(m, k[1], k[2], al)} :
                   SameFieldRefs(m, x.m) /\ SameBodyRefs(m, x.m)
          /\ \A align \in {1, 4, 8}, sz \in {0, 1} :
                \A x \in {message_extend_body(m, align, sz, FALSE, al)} :
                   /\ (al.move /\ m.body # 0
                       /\ x.m.header.body_size # m.header.body_size) =>
                          x.m.body # m.body
                   /\ SameBodyRefs(m, x.m)

\* an open array whose length is referenced in a body that has moved, in a
\* message whose fields hold referenced strings and have moved
C36_Witness ==
    /\ m.id # 0 /\ ~m.sealed /\ n_containers(m) > 0
    /\ message_get_container(m).array_size # 0
    /\ last.op = "open_container" /\ last.r >= 0
    /\ m.body = 6000 /\ m.fields = 2000
    /\ m.path # 0 /\ m.destination # 0

\* C37: when from_malloc has just returned a message, of whatever type, the
\* read cursor is at the start of the body: rindex is 0, the root frame's
\* index is 0 and no container is entered
C37_CursorAtStart ==
    (m.id # 0 /\ last.op = "from_malloc" /\ last.r = 0) =>
       /\ m.rindex = 0
       /\ m.root_container.index = 0
       /\ n_containers(m) = 0

\* the cursor state of a reader: rindex, and the index of every frame of
\* the stack, whose length is the depth
Cursor(msg) ==
    <<msg.rindex, msg.root_container.index,
      [d \in 1..n_containers(msg) |-> msg.containers[d].index]>>

\* C38: when read_basic, enter_container or exit_container returns an error
\* or 0 on a sealed message, rindex, the depth of the stack and the index of
\* every frame are what they were before the call
C38_FailedReadKeepsCursor ==
    (m.id # 0 /\ m.sealed) =>
       /\ \A type \in BasicTypes \cup {SD_BUS_TYPE.ARRAY, 0} :
             \A x \in {sd_bus_message_read_basic(m, type)} :
                (x.r <= 0 /\ ~x.abort) => Cursor(x.m) = Cursor(m)
       /\ \A k \in Containers \cup {<<SD_BUS_TYPE.BYTE, <<SD_BUS_TYPE.BYTE>>>>},
             al \in NoneFails \cup Allocs({"containers", "strdup"}) :
             \A x \in {sd_bus_message_enter_container(m, k[1], k[2], al)} :
                x.r <= 0 => Cursor(x.m) = Cursor(m)
       /\ \A x \in {sd_bus_message_exit_container(m)} :
             x.r <= 0 => Cursor(x.m) = Cursor(m)

\* inside an array of a received message, with elements read, an
\* exit_container has just been refused or a read has just met the end
C38_Witness ==
    /\ m.id # 0 /\ m.sealed /\ n_containers(m) > 0
    /\ message_get_container(m).enclosing = SD_BUS_TYPE.ARRAY
    /\ m.rindex > message_get_container(m).begin
    /\ last.op \in {"exit_container", "read_basic"} /\ last.r <= 0
    /\ ~last.abort

\* C39: in every state of an unsealed message, those after a writer
\* operation that failed with -ENOMEM included, the length prefix of every
\* open array is the body size minus the offset of the array's first element
C39_OpenArrayLengths ==
    (m.id # 0 /\ ~m.sealed) =>
       \A d \in 1..n_containers(m) :
          m.containers[d].array_size # 0 => LengthExact(m, m.containers[d])

\* C40: when from_malloc has just returned an error to the caller that
\* handed it a buffer, whether the error comes from the validation of the
\* header or from the parsing of the header fields, the buffer has not been
\* freed: no call that returns this error frees its buffer
C40_BufferOwnership ==
    (m.id = 0 /\ last.op = "from_malloc" /\ last.r < 0) =>
       \A buffer \in Buffers, al \in Allocs({"message"}), past \in Pasts :
          \A x \in {bus_message_from_malloc(1, buffer, al, past)} :
             x.r = last.r => ~x.freed

=============================================================================
